---------------------------- MODULE Spec2Model ----------------------------
(***************************************************************************)
(* FinBoard request core: SmartRateLimiter (quota governor), AdaptiveCache *)
(* (cache + change profiler) and fetchJson (request gatekeeper).           *)
(*                                                                         *)
(* Times are milliseconds.  TLC integers are 32 bit, so the clock starts   *)
(* at T0 instead of a real epoch value; only differences of times matter   *)
(* to the code.  A JavaScript number slot (number | NaN | null | undefined) *)
(* is a record that names its kind.                                        *)
(***************************************************************************)
EXTENDS Integers, Sequences, FiniteSets, TLC

\* ------------------------------------------------------------------ bounds
\* the clock when the page loads
T0 == 10000000
\* clock advances, fetchJson calls, and urls that get a quota, per behaviour
MaxTicks == 2
MaxFetches == 2
MaxKeys == 1
\* AdaptiveCache operations and clock advances per behaviour of SpecCache
MaxCacheOps == 3
MaxCacheTicks == 2
\* SmartRateLimiter operations and clock advances per behaviour of SpecLimiter
MaxLimiterOps == 2
MaxLimiterTicks == 2
\* operations and clock advances per behaviour of SpecPersist
MaxPersistOps == 2
MaxPersistTicks == 2
\* normalizeData: the most members of an object handed to it
MaxMembers == 4
MaxPollOps == 3
MaxPollCalls == 4
MaxPollTicks == 6

\* ------------------------------------------------------- program constants
maxRequestsPerMinute == 30
maxRequestsPerHour == 200
minDelayBetweenRequests == 500
maxConsecutiveErrors == 3
MinuteMs == 60000
HourMs == 3600000
BackoffBaseMs == 5000
DefaultRetrySeconds == 60

\* ------------------------------------------------------ JavaScript values
\* A JS number slot: a number, NaN, null or undefined.
NumV(n) == [k |-> "num", v |-> n]
NaNV == [k |-> "nan", v |-> 0]
NullV == [k |-> "null", v |-> 0]
UndefV == [k |-> "undef", v |-> 0]
IsNum(x) == x.k = "num"
\* truthiness of a number slot: 0, NaN, null and undefined are falsy
TruthyNum(x) == x.k = "num" /\ x.v # 0
\* x + y and x * y on number slots that hold numbers or NaN
AddV(x, y) == IF IsNum(x) /\ IsNum(y) THEN NumV(x.v + y.v) ELSE NaNV
MulV(x, y) == IF IsNum(x) /\ IsNum(y) THEN NumV(x.v * y.v) ELSE NaNV
\* JSON.stringify writes NaN as null and drops undefined members
JsonNum(x) == IF x.k = "nan" THEN NullV ELSE x

Max(a, b) == IF a >= b THEN a ELSE b
Min(a, b) == IF a <= b THEN a ELSE b

\* Math.ceil(a / b) for integers a and b > 0
CeilDiv(a, b) == IF a >= 0 THEN (a + b - 1) \div b ELSE -((-a) \div b)

RECURSIVE Pow(_, _)
Pow(b, e) == IF e = 0 THEN 1 ELSE b * Pow(b, e - 1)

\* ------------------------------------------------------------ Map helpers
EmptyMap == [x \in {} |-> 0]
MapSet(m, key, val) == [x \in DOMAIN m \cup {key} |-> IF x = key THEN val ELSE m[x]]
MapDelete(m, key) == [x \in DOMAIN m \ {key} |-> m[x]]

\* ------------------------------------------------------------------- urls
U1 == "https://api.one/quote"
U2 == "http://localhost:3000/api/rates"
UBad == "api.one/quote"
Urls == {U1, U2, UBad}
CurrentHost == "localhost:3000"

\* new URL(url): the host of a well-formed url, "" when the constructor throws
\* (a string without a scheme)
UrlHost(u) ==
  CASE u = U1 -> "api.one"
    [] u = U2 -> "localhost:3000"
    [] OTHER -> ""

IsValidUrl(u) == UrlHost(u) # ""

isExternalUrl(u) == IsValidUrl(u) /\ UrlHost(u) # CurrentHost

\* ====================================================== SmartRateLimiter
\* getOrCreateQuota: the zeroed quota created for an unknown url
NewQuota(t) ==
  [ requestCount |-> 0, requestsThisMinute |-> 0, requestsThisHour |-> 0,
    minuteStartTime |-> t, hourStartTime |-> t, lastRequestTime |-> 0,
    throttledUntil |-> NullV, consecutiveErrors |-> 0,
    detectedLimits |-> UndefV, customRetryAfter |-> UndefV ]

getOrCreateQuota(qs, u, t) ==
  IF u \in DOMAIN qs THEN qs ELSE MapSet(qs, u, NewQuota(t))

\* the lazy window reset that canMakeRequest and recordSuccess run first
MinuteElapsed(q, t) == t - q.minuteStartTime > MinuteMs
HourElapsed(q, t) == t - q.hourStartTime > HourMs

NormalizeWindows(q, t) ==
  LET q1 == IF MinuteElapsed(q, t)
            THEN [q EXCEPT !.requestsThisMinute = 0, !.minuteStartTime = t]
            ELSE q
  IN IF HourElapsed(q1, t)
     THEN [q1 EXCEPT !.requestsThisHour = 0, !.hourStartTime = t]
     ELSE q1

Allowed == [allowed |-> TRUE, reason |-> "none", retryAfter |-> UndefV]
Denied(why, secs) == [allowed |-> FALSE, reason |-> why, retryAfter |-> NumV(secs)]

\* the backoff rounded down instead of up
BackoffSecondsFloor(n) ==
  LET e == n - maxConsecutiveErrors
  IN (Pow(3, e) * BackoffBaseMs) \div (Pow(2, e) * 1000)

\* Math.ceil(Math.pow(1.5, n - 3) * 5000 / 1000): 1.5^e = 3^e / 2^e exactly
BackoffSeconds(n) ==
  LET e == n - maxConsecutiveErrors
  IN CeilDiv(Pow(3, e) * BackoffBaseMs, Pow(2, e) * 1000)

\* the minute limit compared with > instead of >=
DenialChecksOffByOne(q, t) ==
  IF TruthyNum(q.throttledUntil) /\ t < q.throttledUntil.v
  THEN Denied("throttled", CeilDiv(q.throttledUntil.v - t, 1000))
  ELSE IF q.requestsThisMinute > maxRequestsPerMinute
  THEN Denied("minute", CeilDiv(q.minuteStartTime + MinuteMs - t, 1000))
  ELSE IF q.requestsThisHour >= maxRequestsPerHour
  THEN Denied("hour", CeilDiv(q.hourStartTime + HourMs - t, 1000))
  ELSE IF t - q.lastRequestTime < minDelayBetweenRequests
  THEN Denied("spacing", CeilDiv(minDelayBetweenRequests - (t - q.lastRequestTime), 1000))
  ELSE IF q.consecutiveErrors >= maxConsecutiveErrors
  THEN Denied("errors", BackoffSeconds(q.consecutiveErrors))
  ELSE Allowed

\* the spacing check moved in front of the window limits
DenialChecksSpacingFirst(q, t) ==
  IF TruthyNum(q.throttledUntil) /\ t < q.throttledUntil.v
  THEN Denied("throttled", CeilDiv(q.throttledUntil.v - t, 1000))
  ELSE IF t - q.lastRequestTime < minDelayBetweenRequests
  THEN Denied("spacing", CeilDiv(minDelayBetweenRequests - (t - q.lastRequestTime), 1000))
  ELSE IF q.requestsThisMinute >= maxRequestsPerMinute
  THEN Denied("minute", CeilDiv(q.minuteStartTime + MinuteMs - t, 1000))
  ELSE IF q.requestsThisHour >= maxRequestsPerHour
  THEN Denied("hour", CeilDiv(q.hourStartTime + HourMs - t, 1000))
  ELSE IF q.consecutiveErrors >= maxConsecutiveErrors
  THEN Denied("errors", BackoffSeconds(q.consecutiveErrors))
  ELSE Allowed

\* the five denial checks of canMakeRequest on the normalized quota
DenialChecks(q, t) ==
  IF TruthyNum(q.throttledUntil) /\ t < q.throttledUntil.v
  THEN Denied("throttled", CeilDiv(q.throttledUntil.v - t, 1000))
  ELSE IF q.requestsThisMinute >= maxRequestsPerMinute
  THEN Denied("minute", CeilDiv(q.minuteStartTime + MinuteMs - t, 1000))
  ELSE IF q.requestsThisHour >= maxRequestsPerHour
  THEN Denied("hour", CeilDiv(q.hourStartTime + HourMs - t, 1000))
  ELSE IF t - q.lastRequestTime < minDelayBetweenRequests
  THEN Denied("spacing", CeilDiv(minDelayBetweenRequests - (t - q.lastRequestTime), 1000))
  ELSE IF q.consecutiveErrors >= maxConsecutiveErrors
  THEN Denied("errors", BackoffSeconds(q.consecutiveErrors))
  ELSE Allowed

\* canMakeRequest(url): the quotas afterwards, whether it saved, and its answer
canMakeRequestQuotas(qs, u, t) ==
  LET qs1 == getOrCreateQuota(qs, u, t)
  IN [qs1 EXCEPT ![u] = NormalizeWindows(qs1[u], t)]

canMakeRequestSaves(qs, u, t) ==
  LET q == getOrCreateQuota(qs, u, t)[u]
  IN MinuteElapsed(q, t) \/ HourElapsed(q, t)

canMakeRequest(qs, u, t) == DenialChecks(canMakeRequestQuotas(qs, u, t)[u], t)

\* recordSuccess counting on the windows as they are, like recordError
recordSuccessStaleWindows(qs, u, t) ==
  LET qs1 == getOrCreateQuota(qs, u, t)
      q == qs1[u]
  IN [qs1 EXCEPT ![u] =
        [q EXCEPT !.requestCount = q.requestCount + 1,
                  !.requestsThisMinute = q.requestsThisMinute + 1,
                  !.requestsThisHour = q.requestsThisHour + 1,
                  !.lastRequestTime = t,
                  !.consecutiveErrors = 0,
                  !.throttledUntil = NullV]]

recordSuccess(qs, u, t) ==
  LET qs1 == getOrCreateQuota(qs, u, t)
      q == NormalizeWindows(qs1[u], t)
  IN [qs1 EXCEPT ![u] =
        [q EXCEPT !.requestCount = q.requestCount + 1,
                  !.requestsThisMinute = q.requestsThisMinute + 1,
                  !.requestsThisHour = q.requestsThisHour + 1,
                  !.lastRequestTime = t,
                  !.consecutiveErrors = 0,
                  !.throttledUntil = NullV]]

\* recordError counting the failed request in the windows
recordErrorCounting(qs, u, t) ==
  LET qs1 == getOrCreateQuota(qs, u, t)
  IN [qs1 EXCEPT ![u].consecutiveErrors = @ + 1, ![u].lastRequestTime = t,
                 ![u].requestCount = @ + 1, ![u].requestsThisMinute = @ + 1,
                 ![u].requestsThisHour = @ + 1]

recordError(qs, u, t) ==
  LET qs1 == getOrCreateQuota(qs, u, t)
  IN [qs1 EXCEPT ![u].consecutiveErrors = @ + 1, ![u].lastRequestTime = t]

\* handleRateLimitError that keeps the error count
handleRateLimitErrorKeepingErrors(qs, u, secs, t) ==
  LET qs1 == getOrCreateQuota(qs, u, t)
  IN [qs1 EXCEPT ![u].throttledUntil = AddV(NumV(t), MulV(secs, NumV(1000)))]

\* handleRateLimitError(url, retryAfterSeconds): secs is a number slot (a
\* header that does not parse reaches it as NaN)
handleRateLimitError(qs, u, secs, t) ==
  LET qs1 == getOrCreateQuota(qs, u, t)
  IN [qs1 EXCEPT ![u].throttledUntil = AddV(NumV(t), MulV(secs, NumV(1000))),
                 ![u].consecutiveErrors = 0]

setCustomRetryTime(qs, u, secs, t) ==
  LET qs1 == getOrCreateQuota(qs, u, t)
  IN [qs1 EXCEPT ![u].customRetryAfter = NumV(secs),
                 ![u].throttledUntil = NumV(t + secs * 1000)]

reset(qs, u) == MapDelete(qs, u)

\* ----------------------------------------------------- response headers
\* A header value is a string, written as a sequence of one-character strings;
\* a Headers object maps the names it holds to their values.
Digits == <<"0", "1", "2", "3", "4", "5", "6", "7", "8", "9">>
IsDigit(c) == \E i \in 1..10 : Digits[i] = c
DigitVal(c) == (CHOOSE i \in 1..10 : Digits[i] = c) - 1

RECURSIVE ParseDigits(_, _, _)
ParseDigits(s, i, acc) ==
  IF i > Len(s) \/ ~IsDigit(s[i]) THEN acc
  ELSE ParseDigits(s, i + 1, acc * 10 + DigitVal(s[i]))

\* parseInt(s): an optional sign, then the longest run of digits; NaN without one
parseInt(s) ==
  LET signed == Len(s) > 0 /\ s[1] \in {"-", "+"}
      first == IF signed THEN 2 ELSE 1
      mag == ParseDigits(s, first, 0)
  IN IF first > Len(s) \/ ~IsDigit(s[first]) THEN NaNV
     ELSE IF signed /\ s[1] = "-" THEN NumV(-mag) ELSE NumV(mag)

\* headers.get(name): the value, or null when the header is absent
HasHeader(h, name) == name \in DOMAIN h
\* a string is truthy when it is not empty
TruthyHeader(h, name) == HasHeader(h, name) /\ h[name] # <<>>

patterns ==
  << [limit |-> "x-ratelimit-limit", remaining |-> "x-ratelimit-remaining", reset |-> "x-ratelimit-reset"],
     [limit |-> "ratelimit-limit", remaining |-> "ratelimit-remaining", reset |-> "ratelimit-reset"],
     [limit |-> "x-rate-limit-limit", remaining |-> "x-rate-limit-remaining", reset |-> "x-rate-limit-reset"] >>

PatternMatches(h, i) ==
  TruthyHeader(h, patterns[i].limit) /\ TruthyHeader(h, patterns[i].remaining)

\* index of the first pattern with both headers, 0 when there is none
FirstPattern(h) ==
  IF \E i \in 1..3 : PatternMatches(h, i)
  THEN CHOOSE i \in 1..3 : PatternMatches(h, i) /\ \A j \in 1..(i - 1) : ~PatternMatches(h, j)
  ELSE 0

DetectedLimits(h, i) ==
  [ requestsPerMinute |-> parseInt(h[patterns[i].limit]),
    remainingCalls |-> parseInt(h[patterns[i].remaining]),
    resetTime |-> IF TruthyHeader(h, patterns[i].reset)
                  THEN MulV(parseInt(h[patterns[i].reset]), NumV(1000))
                  ELSE UndefV ]

\* learnFromHeaders saves whenever a pattern matched
learnFromHeadersSaves(h) == FirstPattern(h) # 0

learnFromHeaders(qs, u, h, t) ==
  LET qs1 == getOrCreateQuota(qs, u, t)
      i == FirstPattern(h)
  IN IF i = 0 THEN qs1
     ELSE LET d == DetectedLimits(h, i)
              qs2 == [qs1 EXCEPT ![u].detectedLimits = d]
              \* remaining <= 0 is false for NaN
              exhausted == IsNum(d.remainingCalls) /\ d.remainingCalls.v <= 0
              resetTime == IF TruthyHeader(h, patterns[i].reset)
                           THEN parseInt(h[patterns[i].reset])
                           ELSE NumV(DefaultRetrySeconds)
          IN IF exhausted THEN handleRateLimitError(qs2, u, resetTime, t) ELSE qs2

\* ------------------------------------------------------------- payloads
\* A JSON payload: k is its type, v its content (the number, the length of a
\* string of k's, 1 for true, the p of the object {"p": v}) and w the number
\* of {"data": ...} envelopes around it.
JsVal(kind, val, wraps) == [k |-> kind, v |-> val, w |-> wraps]
JsNull == JsVal("null", 0, 0)
JsZero == JsVal("num", 0, 0)
JsEmptyString == JsVal("str", 0, 0)
JsText == JsVal("str", 2, 0)
JsFalse == JsVal("bool", 0, 0)
JsObjA == JsVal("obj", 1, 0)
JsObjB == JsVal("obj", 2, 0)
JsWrapA == JsVal("obj", 1, 1)
JsWrapZero == JsVal("num", 0, 1)

\* truthiness: null, 0, "" and false are falsy, every object is truthy
Truthy(x) ==
  \/ x.w > 0
  \/ x.k = "obj"
  \/ x.k \in {"num", "str"} /\ x.v # 0
  \/ x.k = "bool" /\ x.v = 1

\* x.data: defined only on an envelope
HasDataMember(x) == x.w > 0
DataMember(x) == [x EXCEPT !.w = x.w - 1]

\* JSON.stringify(x) as character codes
RECURSIVE DecimalCodes(_)
DecimalCodes(n) ==
  IF n < 10 THEN <<48 + n>> ELSE DecimalCodes(n \div 10) \o <<48 + (n % 10)>>

RECURSIVE Stringify(_)
Stringify(x) ==
  IF x.w > 0
  THEN <<123, 34, 100, 97, 116, 97, 34, 58>> \o Stringify(DataMember(x)) \o <<125>>
  ELSE CASE x.k = "null" -> <<110, 117, 108, 108>>
         [] x.k = "num" -> DecimalCodes(x.v)
         [] x.k = "str" -> <<34>> \o [i \in 1..x.v |-> 107] \o <<34>>
         [] x.k = "bool" -> IF x.v = 1 THEN <<116, 114, 117, 101>>
                            ELSE <<102, 97, 108, 115, 101>>
         [] OTHER -> <<123, 34, 112, 34, 58>> \o DecimalCodes(x.v) \o <<125>>

\* hashData: hash = ((hash << 5) - hash + char) & itself, a 32-bit value kept
\* as two 16-bit halves <<high, low>>; toString(36) is one-to-one on them
HashStep(h, c) ==
  LET lo == 31 * h[2] + c
  IN << (31 * h[1] + lo \div 65536) % 65536, lo % 65536 >>

RECURSIVE HashCodes(_, _)
HashCodes(h, codes) ==
  IF codes = <<>> THEN h ELSE HashCodes(HashStep(h, Head(codes)), Tail(codes))

hashData(x) == HashCodes(<<0, 0>>, Stringify(x))

\* ---------------------------------------- exact arithmetic on big naturals
\* little-endian limbs in base 10000, without leading zero limbs
Base == 100 * 100

RECURSIVE BigFromInt(_)
BigFromInt(n) == IF n = 0 THEN <<>> ELSE <<n % Base>> \o BigFromInt(n \div Base)

RECURSIVE BigAddC(_, _, _)
BigAddC(a, b, carry) ==
  IF a = <<>> /\ b = <<>> THEN BigFromInt(carry)
  ELSE LET x == IF a = <<>> THEN 0 ELSE Head(a)
           y == IF b = <<>> THEN 0 ELSE Head(b)
           t == x + y + carry
       IN <<t % Base>> \o BigAddC(IF a = <<>> THEN a ELSE Tail(a),
                                  IF b = <<>> THEN b ELSE Tail(b), t \div Base)

BigAdd(a, b) == BigAddC(a, b, 0)

RECURSIVE BigMulLimb(_, _, _)
BigMulLimb(a, d, carry) ==
  IF a = <<>> THEN BigFromInt(carry)
  ELSE LET t == Head(a) * d + carry
       IN <<t % Base>> \o BigMulLimb(Tail(a), d, t \div Base)

RECURSIVE BigMul(_, _)
BigMul(a, b) ==
  IF a = <<>> \/ b = <<>> THEN <<>>
  ELSE LET rest == BigMul(a, Tail(b))
           shifted == IF rest = <<>> THEN <<>> ELSE <<0>> \o rest
       IN IF Head(b) = 0 THEN shifted
          ELSE BigAdd(BigMulLimb(a, Head(b), 0), shifted)

\* -1, 0 or 1 as a < b, a = b or a > b
RECURSIVE BigCmpFrom(_, _, _)
BigCmpFrom(a, b, i) ==
  IF i = 0 THEN 0
  ELSE IF a[i] < b[i] THEN -1
  ELSE IF a[i] > b[i] THEN 1
  ELSE BigCmpFrom(a, b, i - 1)

BigCmp(a, b) ==
  IF Len(a) < Len(b) THEN -1
  ELSE IF Len(a) > Len(b) THEN 1
  ELSE BigCmpFrom(a, b, Len(a))

\* ========================================================= AdaptiveCache
MIN_SAMPLES == 5
MAX_SAMPLES == 20
MIN_TTL == 5 * 1000
MAX_TTL == 24 * 60 * 60 * 1000
DEFAULT_TTL == 60 * 1000
SAVED_SAMPLES == 5

\* A confidence: a number v (+ a fraction below 1 when frac), NaN, or null
\* (what JSON persistence makes of NaN).  Real arithmetic, no rounding.
Conf(n, fraction) == [k |-> "num", v |-> n, frac |-> fraction]
ConfNaN == [k |-> "nan", v |-> 0, frac |-> FALSE]
ConfNull == [k |-> "null", v |-> 0, frac |-> FALSE]
\* profile.confidence > 70 (false for NaN and for null, which compares as 0)
ConfidenceAbove(c, n) == c.k = "num" /\ (c.v > n \/ (c.v = n /\ c.frac))

\* updateFrequency: the mean interval sum / count, or null
Mean(total, count) == [k |-> "num", sum |-> total, n |-> count]
MeanNull == [k |-> "null", sum |-> 0, n |-> 1]

NewProfile(t) ==
  [ updateFrequency |-> MeanNull, samples |-> <<>>, lastCheck |-> t,
    confidence |-> Conf(0, FALSE), isRealtime |-> FALSE,
    recommendedTTL |-> DEFAULT_TTL ]

\* the intervals between consecutive samples whose hashes differ
RECURSIVE ChangeIntervals(_, _)
ChangeIntervals(samples, i) ==
  IF i > Len(samples) THEN <<>>
  ELSE (IF samples[i].hash # samples[i - 1].hash
        THEN <<samples[i].timestamp - samples[i - 1].timestamp>>
        ELSE <<>>) \o ChangeIntervals(samples, i + 1)

RECURSIVE SumSeq(_)
SumSeq(xs) == IF xs = <<>> THEN 0 ELSE Head(xs) + SumSeq(Tail(xs))

RECURSIVE BigSumSquares(_)
BigSumSquares(xs) ==
  IF xs = <<>> THEN <<>>
  ELSE BigAdd(BigMul(BigFromInt(Head(xs)), BigFromInt(Head(xs))), BigSumSquares(Tail(xs)))

\* Math.max(0, Math.min(100, 100 - stdDev / avg * 100)) for intervals xs with
\* sum S > 0, count n and sum of squares Q: stdDev / avg = sqrt(n Q - S^2) / S,
\* so 100 stdDev / avg >= m  iff  (m^2 + 10^4) S^2 <= 10^4 n Q
ConfidenceOf(xs) ==
  LET S == SumSeq(xs)
      n == Len(xs)
      S2 == BigMul(BigFromInt(S), BigFromInt(S))
      nQ4 == BigMul(BigFromInt(10000 * n), BigSumSquares(xs))
      Reaches(m) == BigCmp(BigMul(BigFromInt(m * m + 10000), S2), nQ4) <= 0
      Exactly(m) == BigCmp(BigMul(BigFromInt(m * m + 10000), S2), nQ4) = 0
  IN IF S = 0 THEN ConfNaN
     ELSE IF Reaches(100) THEN Conf(0, FALSE)
     ELSE LET m == CHOOSE c \in 0..99 : Reaches(c) /\ ~Reaches(c + 1)
          IN IF Exactly(m) THEN Conf(100 - m, FALSE) ELSE Conf(99 - m, TRUE)

\* analyzeUpdatePattern without the clamp of the recommended TTL
analyzeUpdatePatternUnclamped(profile) ==
  LET changes == ChangeIntervals(profile.samples, 2)
      S == SumSeq(changes)
      n == Len(changes)
  IN IF n = 0
     THEN [profile EXCEPT !.updateFrequency = MeanNull, !.isRealtime = FALSE,
                          !.recommendedTTL = MAX_TTL, !.confidence = Conf(90, FALSE)]
     ELSE [profile EXCEPT
             !.isRealtime = S < 60 * 1000 * n,
             !.confidence = ConfidenceOf(changes),
             !.updateFrequency = Mean(S, n),
             !.recommendedTTL = (4 * S) \div (5 * n)]

\* analyzeUpdatePattern recommending the whole mean interval, not 0.8 of it
analyzeUpdatePatternWholeInterval(profile) ==
  LET changes == ChangeIntervals(profile.samples, 2)
      S == SumSeq(changes)
      n == Len(changes)
  IN IF n = 0
     THEN [profile EXCEPT !.updateFrequency = MeanNull, !.isRealtime = FALSE,
                          !.recommendedTTL = MAX_TTL, !.confidence = Conf(90, FALSE)]
     ELSE [profile EXCEPT
             !.isRealtime = S < 60 * 1000 * n,
             !.confidence = ConfidenceOf(changes),
             !.updateFrequency = Mean(S, n),
             !.recommendedTTL = Max(MIN_TTL, Min(MAX_TTL, S \div n))]

analyzeUpdatePattern(profile) ==
  LET changes == ChangeIntervals(profile.samples, 2)
      S == SumSeq(changes)
      n == Len(changes)
  IN IF n = 0
     THEN [profile EXCEPT !.updateFrequency = MeanNull, !.isRealtime = FALSE,
                          !.recommendedTTL = MAX_TTL, !.confidence = Conf(90, FALSE)]
     ELSE [profile EXCEPT
             !.isRealtime = S < 60 * 1000 * n,
             !.confidence = ConfidenceOf(changes),
             !.updateFrequency = Mean(S, n),
             \* Math.floor(avgInterval * 0.8), clamped
             !.recommendedTTL = Max(MIN_TTL, Min(MAX_TTL, (4 * S) \div (5 * n)))]

\* slice(0, n): keeps the oldest n instead of the newest
KeepFirstN(xs, n) == IF Len(xs) <= n THEN xs ELSE SubSeq(xs, 1, n)

LastN(xs, n) == IF Len(xs) <= n THEN xs ELSE SubSeq(xs, Len(xs) - n + 1, Len(xs))

\* learnFromData analysing from the first sample on
learnFromDataEager(profiles, u, data, t) ==
  LET profile == IF u \in DOMAIN profiles THEN profiles[u] ELSE NewProfile(t)
      pushed == Append(profile.samples,
                       [hash |-> hashData(data), timestamp |-> t, value |-> data])
      p1 == [profile EXCEPT !.samples = LastN(pushed, MAX_SAMPLES)]
  IN MapSet(profiles, u, [analyzeUpdatePattern(p1) EXCEPT !.lastCheck = t])

learnFromData(profiles, u, data, t) ==
  LET profile == IF u \in DOMAIN profiles THEN profiles[u] ELSE NewProfile(t)
      pushed == Append(profile.samples,
                       [hash |-> hashData(data), timestamp |-> t, value |-> data])
      p1 == [profile EXCEPT !.samples = LastN(pushed, MAX_SAMPLES)]
      p2 == IF Len(p1.samples) >= MIN_SAMPLES THEN analyzeUpdatePattern(p1) ELSE p1
  IN MapSet(profiles, u, [p2 EXCEPT !.lastCheck = t])

\* the recommended TTL trusted whatever the confidence
getAdaptiveTTLTrusting(profiles, u) ==
  IF u \notin DOMAIN profiles THEN DEFAULT_TTL ELSE profiles[u].recommendedTTL

getAdaptiveTTL(profiles, u) ==
  IF u \notin DOMAIN profiles THEN DEFAULT_TTL
  ELSE IF ConfidenceAbove(profiles[u].confidence, 70) THEN profiles[u].recommendedTTL
  ELSE IF profiles[u].isRealtime THEN MIN_TTL
  ELSE DEFAULT_TTL

\* get(url): the cached value, or null (JsNull) on a miss
CacheGet(c, e, u, t) ==
  IF u \notin DOMAIN c \/ ~Truthy(c[u]) \/ u \notin DOMAIN e \/ e[u] = 0 THEN JsNull
  ELSE IF t > e[u] THEN JsNull
  ELSE c[u]

getEvenIfExpired(c, u) ==
  IF u \in DOMAIN c /\ Truthy(c[u]) THEN c[u] ELSE JsNull

\* saveToStorage: what JSON.stringify writes for the cache and the profiles
SavedCache(c, e, t) ==
  [u \in DOMAIN c |->
     [data |-> c[u],
      expiration |-> IF u \in DOMAIN e /\ e[u] # 0 THEN e[u] ELSE t + DEFAULT_TTL]]

SavedConfidence(c) == IF c.k = "nan" THEN ConfNull ELSE c

SavedProfiles(profiles) ==
  [u \in DOMAIN profiles |->
     [profiles[u] EXCEPT
        !.confidence = SavedConfidence(@),
        !.samples = LET kept == LastN(@, SAVED_SAMPLES)
                    IN [i \in 1..Len(kept) |-> [kept[i] EXCEPT !.value = JsNull]]]]

\* AdaptiveCache.set(url, data): the cache after learnFromData, the TTL choice
\* and the two map writes
CacheSet(st, u, data, t) ==
  LET profiles == learnFromData(st.apiProfiles, u, data, t)
      ttl == getAdaptiveTTL(profiles, u)
  IN [st EXCEPT !.apiProfiles = profiles,
                !.cache = MapSet(st.cache, u, data),
                !.expirations = MapSet(st.expirations, u, t + ttl)]

\* ============================================================ persistence
\* SmartRateLimiter.saveToStorage: JSON.stringify of every quota
SavedQuotas(qs) ==
  [u \in DOMAIN qs |->
     [qs[u] EXCEPT
        !.throttledUntil = JsonNum(@),
        !.detectedLimits =
           IF @ = UndefV THEN @
           ELSE [requestsPerMinute |-> JsonNum(@.requestsPerMinute),
                 remainingCalls |-> JsonNum(@.remainingCalls),
                 resetTime |-> JsonNum(@.resetTime)]]]

\* SmartRateLimiter.loadFromStorage at time t
LoadedQuota(q, t) ==
  LET q1 == IF TruthyNum(q.throttledUntil) /\ t > q.throttledUntil.v
            THEN [q EXCEPT !.throttledUntil = NullV] ELSE q
      q2 == IF t - q1.minuteStartTime > MinuteMs
            THEN [q1 EXCEPT !.requestsThisMinute = 0, !.minuteStartTime = t] ELSE q1
  IN IF t - q2.hourStartTime > HourMs
     THEN [q2 EXCEPT !.requestsThisHour = 0, !.hourStartTime = t] ELSE q2

LoadedQuotas(saved, t) == [u \in DOMAIN saved |-> LoadedQuota(saved[u], t)]

\* The in-memory state of the two singletons and what localStorage holds.
EmptyMemory ==
  [quotas |-> EmptyMap, cache |-> EmptyMap, expirations |-> EmptyMap,
   apiProfiles |-> EmptyMap]

StorageOf(st, t) ==
  [quotas |-> SavedQuotas(st.quotas),
   cache |-> SavedCache(st.cache, st.expirations, t),
   profiles |-> SavedProfiles(st.apiProfiles)]

\* both constructors: SmartRateLimiter and AdaptiveCache loadFromStorage
LoadedMemory(ls, t) ==
  [quotas |-> LoadedQuotas(ls.quotas, t),
   cache |-> [u \in DOMAIN ls.cache |-> ls.cache[u].data],
   expirations |-> [u \in DOMAIN ls.cache |-> ls.cache[u].expiration],
   apiProfiles |-> ls.profiles]

\* ================================================================== state
VARIABLES
  now,           \* Date.now()
  quotas,        \* SmartRateLimiter.quotas
  cache,         \* AdaptiveCache.cache
  expirations,   \* AdaptiveCache.expirations
  apiProfiles,   \* AdaptiveCache.apiProfiles
  localStorage,  \* the three persisted snapshots
  awaiting,      \* per url: fetchJson calls suspended at `await fetch`
  reading,       \* per url: calls suspended at `await response.json()` / `.text()`
  last,          \* the latest fetchJson step and, when it returned, its result
  ticks, fetches,  \* how often the clock advanced and fetchJson was called
  poller,        \* one startPolling controller and the interval timers it set
  widgets        \* useDashboardStore.widgets: the apiUrl of every widget

vars == <<now, quotas, cache, expirations, apiProfiles, localStorage,
          awaiting, reading, last, ticks, fetches, poller, widgets>>

\* no controller, no dashboard
NoPoller == [timer |-> 0, intervals |-> {}, nextId |-> 1, everyMs |-> 0, calls |-> <<>>]
NoWidgets == <<>>
\* a step of the api client, the cache or the limiter
Idle == UNCHANGED <<poller, widgets>>

Memory == [quotas |-> quotas, cache |-> cache, expirations |-> expirations,
           apiProfiles |-> apiProfiles]

\* ------------------------------------------------------------ FetchResult
NoQuotaInfo ==
  [present |-> FALSE, requestCount |-> 0, requestsThisMinute |-> 0,
   isThrottled |-> FALSE, retryAfter |-> UndefV]

QuotaInfo(q, throttled, retry) ==
  [present |-> TRUE, requestCount |-> q.requestCount,
   requestsThisMinute |-> q.requestsThisMinute,
   isThrottled |-> throttled, retryAfter |-> retry]

FetchResult(isOk, payload, msg, isCached, learning, info) ==
  [ok |-> isOk, data |-> payload, message |-> msg, cached |-> isCached,
   learningMode |-> learning, quotaInfo |-> info]

Failure(msg) == FetchResult(FALSE, JsNull, msg, FALSE, FALSE, NoQuotaInfo)

NoResult == FetchResult(FALSE, JsNull, "", FALSE, FALSE, NoQuotaInfo)

\* last: op names the step and time its Date.now(), check is the canMakeRequest
\* answer of a "start" step, transport says that the step issued the fetch,
\* returned that fetchJson returned result in this step
Step(opName, u, chk, sent, ret, res) ==
  [op |-> opName, url |-> u, time |-> now, check |-> chk, transport |-> sent,
   returned |-> ret, result |-> res]

NoStep == Step("none", "", Allowed, FALSE, FALSE, NoResult)

ZeroCounts == [u \in Urls |-> 0]
ZeroReading == [u \in Urls |-> [json |-> 0, text |-> 0]]

\* --------------------------------------------------------------- fetchJson
\* lines 38-116: validation, canMakeRequest, the cache look-up and the denial;
\* a call that is allowed and misses the cache suspends at `await fetch`
\* the limiter asked before the url is validated
FetchInvalidChecking(u) ==
  /\ fetches < MaxFetches
  /\ ~IsValidUrl(u)
  /\ fetches' = fetches + 1
  /\ quotas' = canMakeRequestQuotas(quotas, u, now)
  /\ last' = Step("start", u, Allowed, FALSE, TRUE, Failure("Invalid URL format"))
  /\ UNCHANGED <<now, cache, expirations, apiProfiles, localStorage,
                 awaiting, reading, ticks>>

FetchInvalid(u) ==
  /\ fetches < MaxFetches
  /\ ~IsValidUrl(u)
  /\ fetches' = fetches + 1
  /\ last' = Step("start", u, Allowed, FALSE, TRUE, Failure("Invalid URL format"))
  /\ UNCHANGED <<now, quotas, cache, expirations, apiProfiles, localStorage,
                 awaiting, reading, ticks>>

\* rateLimitCheck.retryAfter && !isNaN(rateLimitCheck.retryAfter) ? it : 60
waitSeconds(chk) ==
  IF TruthyNum(chk.retryAfter) THEN chk.retryAfter ELSE NumV(DefaultRetrySeconds)

\* a fresh hit counted as a request
FetchStartCountingHits(u) ==
  /\ fetches < MaxFetches
  /\ IsValidUrl(u)
  /\ u \in DOMAIN quotas \/ Cardinality(DOMAIN quotas) < MaxKeys
  /\ fetches' = fetches + 1
  /\ LET chk == canMakeRequest(quotas, u, now)
         qs == canMakeRequestQuotas(quotas, u, now)
         cachedData == CacheGet(cache, expirations, u, now)
         cachedFallback == getEvenIfExpired(cache, u)
     IN /\ quotas' = IF cachedData # JsNull THEN recordSuccess(qs, u, now) ELSE qs
        /\ localStorage' =
             IF canMakeRequestSaves(quotas, u, now)
             THEN [localStorage EXCEPT !.quotas = SavedQuotas(qs)]
             ELSE localStorage
        /\ IF cachedData # JsNull
           THEN /\ last' = Step("start", u, chk, FALSE, TRUE,
                     FetchResult(TRUE, cachedData, "Success (cached)", TRUE, FALSE,
                                 QuotaInfo(qs[u], FALSE, UndefV)))
                /\ awaiting' = awaiting
           ELSE IF ~chk.allowed
           THEN /\ last' = Step("start", u, chk, FALSE, TRUE,
                     IF cachedFallback # JsNull
                     THEN FetchResult(TRUE, cachedFallback, "denied (using cached data)",
                                      TRUE, FALSE, QuotaInfo(qs[u], TRUE, waitSeconds(chk)))
                     ELSE FetchResult(FALSE, JsNull, "denied", FALSE, FALSE,
                                      QuotaInfo(qs[u], TRUE, waitSeconds(chk))))
                /\ awaiting' = awaiting
           ELSE /\ last' = Step("start", u, chk, TRUE, FALSE, NoResult)
                /\ awaiting' = [awaiting EXCEPT ![u] = @ + 1]
  /\ UNCHANGED <<now, cache, expirations, apiProfiles, reading, ticks>>

FetchStart(u) ==
  /\ fetches < MaxFetches
  /\ IsValidUrl(u)
  /\ u \in DOMAIN quotas \/ Cardinality(DOMAIN quotas) < MaxKeys
  /\ fetches' = fetches + 1
  /\ LET chk == canMakeRequest(quotas, u, now)
         qs == canMakeRequestQuotas(quotas, u, now)
         cachedData == CacheGet(cache, expirations, u, now)
         cachedFallback == getEvenIfExpired(cache, u)
     IN /\ quotas' = qs
        /\ localStorage' =
             IF canMakeRequestSaves(quotas, u, now)
             THEN [localStorage EXCEPT !.quotas = SavedQuotas(qs)]
             ELSE localStorage
        /\ IF cachedData # JsNull
           THEN /\ last' = Step("start", u, chk, FALSE, TRUE,
                     FetchResult(TRUE, cachedData, "Success (cached)", TRUE, FALSE,
                                 QuotaInfo(qs[u], FALSE, UndefV)))
                /\ awaiting' = awaiting
           ELSE IF ~chk.allowed
           THEN /\ last' = Step("start", u, chk, FALSE, TRUE,
                     IF cachedFallback # JsNull
                     THEN FetchResult(TRUE, cachedFallback, "denied (using cached data)",
                                      TRUE, FALSE, QuotaInfo(qs[u], TRUE, waitSeconds(chk)))
                     ELSE FetchResult(FALSE, JsNull, "denied", FALSE, FALSE,
                                      QuotaInfo(qs[u], TRUE, waitSeconds(chk))))
                /\ awaiting' = awaiting
           ELSE /\ last' = Step("start", u, chk, TRUE, FALSE, NoResult)
                /\ awaiting' = [awaiting EXCEPT ![u] = @ + 1]
  /\ UNCHANGED <<now, cache, expirations, apiProfiles, reading, ticks>>

\* lines 223-259: the catch block, entered when fetch (or response.text())
\* rejects: recordError, then the stale value or a network failure
CatchBlock(u) ==
  LET qs == recordError(quotas, u, now)
      cachedFallback == getEvenIfExpired(cache, u)
  IN /\ quotas' = qs
     /\ localStorage' = [localStorage EXCEPT !.quotas = SavedQuotas(qs)]
     /\ last' = Step("catch", u, Allowed, FALSE, TRUE,
          IF cachedFallback # JsNull
          THEN FetchResult(TRUE, cachedFallback, "Network error (using cached data)",
                           TRUE, FALSE, QuotaInfo(qs[u], FALSE, UndefV))
          ELSE Failure("Network error"))

FetchThrows(u) ==
  /\ awaiting[u] > 0
  /\ awaiting' = [awaiting EXCEPT ![u] = @ - 1]
  /\ CatchBlock(u)
  /\ UNCHANGED <<now, cache, expirations, apiProfiles, reading, ticks, fetches>>

\* ------------------------------------------------------------- transport
\* What the transport can deliver: a status, rate-limit and retry-after
\* headers, and a content type ("" when the header is absent).
NoHeaders == EmptyMap
Str2(a, b) == <<a, b>>
HeadersRemaining ==
  [n \in {"x-ratelimit-limit", "x-ratelimit-remaining", "x-ratelimit-reset"} |->
     CASE n = "x-ratelimit-limit" -> Str2("6", "0")
       [] n = "x-ratelimit-remaining" -> <<"5">>
       [] OTHER -> Str2("3", "0")]
HeadersExhausted ==
  [n \in {"x-ratelimit-limit", "x-ratelimit-remaining"} |->
     IF n = "x-ratelimit-limit" THEN Str2("6", "0") ELSE <<"0">>]
HeadersExhaustedReset ==
  [n \in {"ratelimit-limit", "ratelimit-remaining", "ratelimit-reset", "retry-after"} |->
     CASE n = "ratelimit-limit" -> Str2("6", "0")
       [] n = "ratelimit-remaining" -> <<"0">>
       [] n = "ratelimit-reset" -> Str2("3", "0")
       [] OTHER -> <<"5">>]
HeadersThirdVariant ==
  [n \in {"x-ratelimit-limit", "x-rate-limit-limit", "x-rate-limit-remaining"} |->
     CASE n = "x-ratelimit-limit" -> Str2("6", "0")
       [] n = "x-rate-limit-limit" -> Str2("1", "0")
       [] OTHER -> <<"3">>]
HeadersRetryDate ==
  [n \in {"retry-after"} |-> <<"W", "e", "d">>]
HeadersRetryZero ==
  [n \in {"retry-after", "x-ratelimit-limit", "x-ratelimit-remaining", "x-ratelimit-reset"} |->
     CASE n = "retry-after" -> <<"0">>
       [] n = "x-ratelimit-limit" -> Str2("6", "0")
       [] n = "x-ratelimit-remaining" -> <<"0">>
       [] OTHER -> <<"s", "o", "o", "n">>]

CtJson == "application/json; charset=utf-8"
CtHtml == "text/html"
CtPlain == "text/plain"
CtAbsent == ""
\* contentType?.includes(...)
IncludesJson(ct) == ct = CtJson
IncludesHtml(ct) == ct = CtHtml

Response(code, h, ct) == [status |-> code, headers |-> h, contentType |-> ct]
ResponseOk(r) == r.status >= 200 /\ r.status <= 299

Responses ==
  { Response(200, NoHeaders, CtJson), Response(200, HeadersRemaining, CtPlain),
    Response(200, HeadersExhausted, CtHtml), Response(404, HeadersThirdVariant, CtJson),
    Response(429, NoHeaders, CtJson), Response(429, HeadersExhaustedReset, CtJson),
    Response(429, HeadersRetryDate, CtPlain), Response(429, HeadersRetryZero, CtAbsent) }

JsonBodies == {JsObjA, JsWrapA, JsObjB, JsZero, JsNull}
TextBodies == {JsEmptyString, JsText}

\* lines 122-126: every response is first recorded as a success, then its
\* headers are learned from
AfterResponse(u, r) == learnFromHeaders(recordSuccess(quotas, u, now), u, r.headers, now)

\* lines 130-132: the retry-after header in seconds, 60 when missing or NaN
safeRetryAfter(r) ==
  LET retryAfter == IF TruthyHeader(r.headers, "retry-after")
                    THEN parseInt(r.headers["retry-after"])
                    ELSE NumV(DefaultRetrySeconds)
  IN IF retryAfter.k = "nan" THEN NumV(DefaultRetrySeconds) ELSE retryAfter

\* lines 128-166: status 429
ResponseRateLimited(u, r) ==
  /\ awaiting[u] > 0
  /\ ~ResponseOk(r) /\ r.status = 429
  /\ awaiting' = [awaiting EXCEPT ![u] = @ - 1]
  /\ LET qs == handleRateLimitError(AfterResponse(u, r), u, safeRetryAfter(r), now)
         cachedFallback == getEvenIfExpired(cache, u)
     IN /\ quotas' = qs
        /\ localStorage' = [localStorage EXCEPT !.quotas = SavedQuotas(qs)]
        /\ last' = Step("429", u, Allowed, FALSE, TRUE,
             IF cachedFallback # JsNull
             THEN FetchResult(TRUE, cachedFallback, "API rate limited (using cached data)",
                              TRUE, FALSE, QuotaInfo(qs[u], TRUE, safeRetryAfter(r)))
             ELSE FetchResult(FALSE, JsNull, "Rate limited by API", FALSE, FALSE,
                              QuotaInfo(qs[u], TRUE, safeRetryAfter(r))))
  /\ UNCHANGED <<now, cache, expirations, apiProfiles, reading, ticks, fetches>>

\* a response that ends in recordError and a failure result
RecordErrorAndFail(u, qs0, opName, msg) ==
  LET qs == recordError(qs0, u, now)
  IN /\ quotas' = qs
     /\ localStorage' = [localStorage EXCEPT !.quotas = SavedQuotas(qs)]
     /\ last' = Step(opName, u, Allowed, FALSE, TRUE, Failure(msg))

\* lines 168-181: any other non-2xx status
ResponseHttpError(u, r) ==
  /\ awaiting[u] > 0
  /\ ~ResponseOk(r) /\ r.status # 429
  /\ awaiting' = [awaiting EXCEPT ![u] = @ - 1]
  /\ RecordErrorAndFail(u, AfterResponse(u, r), "http-error", "HTTP error")
  /\ UNCHANGED <<now, cache, expirations, apiProfiles, reading, ticks, fetches>>

\* lines 196-198: a 2xx response with an HTML body
ResponseHtml(u, r) ==
  /\ awaiting[u] > 0
  /\ ResponseOk(r) /\ ~IncludesJson(r.contentType) /\ IncludesHtml(r.contentType)
  /\ awaiting' = [awaiting EXCEPT ![u] = @ - 1]
  /\ RecordErrorAndFail(u, AfterResponse(u, r), "html", "Received HTML instead of JSON")
  /\ UNCHANGED <<now, cache, expirations, apiProfiles, reading, ticks, fetches>>

\* lines 183-201: a 2xx response whose body is read next
ResponseBodyPending(u, r) ==
  /\ awaiting[u] > 0
  /\ ResponseOk(r) /\ (IncludesJson(r.contentType) \/ ~IncludesHtml(r.contentType))
  /\ awaiting' = [awaiting EXCEPT ![u] = @ - 1]
  /\ reading' = IF IncludesJson(r.contentType)
                THEN [reading EXCEPT ![u].json = @ + 1]
                ELSE [reading EXCEPT ![u].text = @ + 1]
  /\ quotas' = AfterResponse(u, r)
  /\ localStorage' = [localStorage EXCEPT !.quotas = SavedQuotas(quotas')]
  /\ last' = Step("response", u, Allowed, FALSE, FALSE, NoResult)
  /\ UNCHANGED <<now, cache, expirations, apiProfiles, ticks, fetches>>

\* the success result with learningMode taken from the samples before the set
StoreAndReturnCountingBefore(u, data) ==
  LET st == CacheSet(Memory, u, data, now)
  IN /\ cache' = st.cache
     /\ expirations' = st.expirations
     /\ apiProfiles' = st.apiProfiles
     /\ localStorage' = [localStorage EXCEPT
                           !.cache = SavedCache(st.cache, st.expirations, now),
                           !.profiles = SavedProfiles(st.apiProfiles)]
     /\ last' = Step("success", u, Allowed, FALSE, TRUE,
          FetchResult(TRUE, data, "Success", FALSE,
                      (u \notin DOMAIN apiProfiles
                         \/ Len(apiProfiles[u].samples) < MIN_SAMPLES),
                      QuotaInfo(getOrCreateQuota(quotas, u, now)[u], FALSE, UndefV)))
     /\ quotas' = getOrCreateQuota(quotas, u, now)

\* lines 203-222: adaptiveCache.set and the success result
StoreAndReturn(u, data) ==
  LET st == CacheSet(Memory, u, data, now)
  IN /\ cache' = st.cache
     /\ expirations' = st.expirations
     /\ apiProfiles' = st.apiProfiles
     /\ localStorage' = [localStorage EXCEPT
                           !.cache = SavedCache(st.cache, st.expirations, now),
                           !.profiles = SavedProfiles(st.apiProfiles)]
     /\ last' = Step("success", u, Allowed, FALSE, TRUE,
          FetchResult(TRUE, data, "Success", FALSE,
                      Len(st.apiProfiles[u].samples) < MIN_SAMPLES,
                      QuotaInfo(getOrCreateQuota(quotas, u, now)[u], FALSE, UndefV)))
     /\ quotas' = getOrCreateQuota(quotas, u, now)

\* lines 186-191: response.json() resolved; an external url is unwrapped
BodyJson(u, body) ==
  /\ reading[u].json > 0
  /\ ~(isExternalUrl(u) /\ body = JsNull)
  /\ reading' = [reading EXCEPT ![u].json = @ - 1]
  /\ StoreAndReturn(u, IF isExternalUrl(u) /\ HasDataMember(body)
                       THEN DataMember(body) ELSE body)
  /\ UNCHANGED <<now, awaiting, ticks, fetches>>

\* lines 192-195: response.json() rejected, or jsonResponse.data threw on null
BodyJsonInvalid(u) ==
  /\ reading[u].json > 0
  /\ reading' = [reading EXCEPT ![u].json = @ - 1]
  /\ RecordErrorAndFail(u, quotas, "bad-json", "Invalid JSON response from API")
  /\ UNCHANGED <<now, cache, expirations, apiProfiles, awaiting, ticks, fetches>>

\* line 200: response.text() resolved
BodyText(u, body) ==
  /\ reading[u].text > 0
  /\ reading' = [reading EXCEPT ![u].text = @ - 1]
  /\ StoreAndReturn(u, body)
  /\ UNCHANGED <<now, awaiting, ticks, fetches>>

\* line 200: response.text() rejected, which the outer catch handles
BodyTextThrows(u) ==
  /\ reading[u].text > 0
  /\ reading' = [reading EXCEPT ![u].text = @ - 1]
  /\ CatchBlock(u)
  /\ UNCHANGED <<now, cache, expirations, apiProfiles, awaiting, ticks, fetches>>

\* ------------------------------------------------------ other operations
\* the clock; the steps are the distances the limiter's checks turn on
TickSet == {1, 500, 5000, 60000}

Tick(d) ==
  /\ ticks < MaxTicks
  /\ ticks' = ticks + 1
  /\ now' = now + d
  /\ UNCHANGED <<quotas, cache, expirations, apiProfiles, localStorage,
                 awaiting, reading, last, fetches>>

\* ---------------------------------------------------------- earlier visits
\* What localStorage holds when the page loads is what an earlier visit left
\* there.  An earlier visit is replayed with the operations above: a poll of
\* url u at time t that was admitted (allowed, cache miss) and then answered.
PollAdmitted(st, u, t) ==
  /\ CacheGet(st.cache, st.expirations, u, t) = JsNull
  /\ canMakeRequest(st.quotas, u, t).allowed

PollOutcome(st, u, e) ==
  LET checked == [st EXCEPT !.quotas = canMakeRequestQuotas(st.quotas, u, e.t)]
  IN IF ~PollAdmitted(st, u, e.t) THEN checked
     ELSE CASE e.kind = "throw" ->
                 [checked EXCEPT !.quotas = recordError(@, u, e.t)]
            [] e.kind = "http-error" ->
                 [checked EXCEPT !.quotas = recordError(recordSuccess(@, u, e.t), u, e.t)]
            [] OTHER ->
                 CacheSet([checked EXCEPT !.quotas = recordSuccess(@, u, e.t)], u, e.data, e.t)

\* the polls log[lo..hi] in order, lo <= hi; every poll leaves a quota for u
\* (the range is halved to keep the evaluation shallow)
RECURSIVE ReplayRange(_, _, _, _, _)
ReplayRange(st, u, log, lo, hi) ==
  IF lo = hi THEN PollOutcome(st, u, log[lo])
  ELSE LET mid == (lo + hi) \div 2
           left == ReplayRange(st, u, log, lo, mid)
       IN IF u \in DOMAIN left.quotas THEN ReplayRange(left, u, log, mid + 1, hi) ELSE left

Replay(st, u, log) == IF log = <<>> THEN st ELSE ReplayRange(st, u, log, 1, Len(log))

Poll(time, outcome, payload) == [t |-> time, kind |-> outcome, data |-> payload]

\* 29 polls answered 404, two seconds apart, in the minute before the page
\* loads
BusyMinuteVisit ==
  [i \in 1..29 |-> Poll(T0 - 59500 + 2000 * (i - 1), "http-error", JsNull)]
\* 199 polls answered 404 in the hour before the page loads, the latest 29 of
\* them in its last minute
BusyHourVisit ==
  [i \in 1..199 |->
     Poll(IF i <= 170 THEN T0 - 3000000 + 10000 * (i - 1)
          ELSE T0 - 59500 + 2000 * (i - 171), "http-error", JsNull)]
\* a stored value that has expired, then two failed polls
FailingVisit ==
  << Poll(T0 - 200000, "ok", JsObjA), Poll(T0 - 100000, "throw", JsNull),
     Poll(T0 - 90000, "throw", JsNull) >>
\* an empty text body was stored
EmptyBodyVisit == << Poll(T0 - 100000, "ok", JsEmptyString) >>

EarlierVisits == {<<>>, BusyMinuteVisit, BusyHourVisit, FailingVisit, EmptyBodyVisit}

Init ==
  /\ now = T0
  /\ \E visit \in EarlierVisits :
       /\ localStorage = StorageOf(Replay(EmptyMemory, U1, visit), T0)
       /\ LET st == LoadedMemory(localStorage, T0)
          IN /\ quotas = st.quotas
             /\ cache = st.cache
             /\ expirations = st.expirations
             /\ apiProfiles = st.apiProfiles
  /\ awaiting = ZeroCounts
  /\ reading = ZeroReading
  /\ last = NoStep
  /\ ticks = 0
  /\ fetches = 0
  /\ poller = NoPoller
  /\ widgets = NoWidgets

Next ==
  \/ \E d \in TickSet : Tick(d) /\ Idle
  \/ \E u \in Urls : FetchInvalid(u) /\ Idle
  \/ \E u \in Urls : FetchStart(u) /\ Idle
  \/ \E u \in Urls : FetchThrows(u) /\ Idle
  \/ \E u \in Urls, r \in Responses : ResponseRateLimited(u, r) /\ Idle
  \/ \E u \in Urls, r \in Responses : ResponseHttpError(u, r) /\ Idle
  \/ \E u \in Urls, r \in Responses : ResponseHtml(u, r) /\ Idle
  \/ \E u \in Urls, r \in Responses : ResponseBodyPending(u, r) /\ Idle
  \/ \E u \in Urls, b \in JsonBodies : BodyJson(u, b) /\ Idle
  \/ \E u \in Urls : BodyJsonInvalid(u) /\ Idle
  \/ \E u \in Urls, b \in TextBodies : BodyText(u, b) /\ Idle
  \/ \E u \in Urls : BodyTextThrows(u) /\ Idle

Spec == Init /\ [][Next]_vars

\* ========================================== AdaptiveCache on its own
\* The cache driven directly: set, invalidate, clear, get and getEvenIfExpired
\* at any time, the limiter left alone.
\* invalidate that forgets the key's profile as well
invalidateDroppingProfile(st, u) ==
  [st EXCEPT !.cache = MapDelete(st.cache, u),
             !.expirations = MapDelete(st.expirations, u),
             !.apiProfiles = MapDelete(st.apiProfiles, u)]

\* invalidate that leaves the expiration behind
invalidateKeepingExpiration(st, u) == [st EXCEPT !.cache = MapDelete(st.cache, u)]

invalidate(st, u) ==
  [st EXCEPT !.cache = MapDelete(st.cache, u),
             !.expirations = MapDelete(st.expirations, u)]

clear(st) == [st EXCEPT !.cache = EmptyMap, !.expirations = EmptyMap]

CacheUrls == {U1, U2}
CachePayloads == {JsObjA, JsObjB, JsEmptyString}
CacheTickSet == {1, 8000, 60000}

\* what a cache operation returned, kept in last
Returned(opName, u, value) ==
  Step(opName, u, Allowed, FALSE, TRUE,
       FetchResult(value # JsNull, value, opName, FALSE, FALSE, NoQuotaInfo))

CacheStored(st) ==
  /\ cache' = st.cache
  /\ expirations' = st.expirations
  /\ apiProfiles' = st.apiProfiles
  /\ localStorage' = [localStorage EXCEPT
                        !.cache = SavedCache(st.cache, st.expirations, now),
                        !.profiles = SavedProfiles(st.apiProfiles)]

CacheSetOp(u, data) ==
  /\ fetches < MaxCacheOps
  /\ fetches' = fetches + 1
  /\ CacheStored(CacheSet(Memory, u, data, now))
  /\ last' = Returned("set", u, data)
  /\ UNCHANGED <<now, quotas, awaiting, reading, ticks>>

CacheInvalidateOp(u) ==
  /\ fetches < MaxCacheOps
  /\ fetches' = fetches + 1
  /\ CacheStored(invalidate(Memory, u))
  /\ last' = Returned("invalidate", u, JsNull)
  /\ UNCHANGED <<now, quotas, awaiting, reading, ticks>>

CacheClearOp ==
  /\ fetches < MaxCacheOps
  /\ fetches' = fetches + 1
  /\ CacheStored(clear(Memory))
  /\ last' = Returned("clear", "", JsNull)
  /\ UNCHANGED <<now, quotas, awaiting, reading, ticks>>

CacheGetOp(u) ==
  /\ fetches < MaxCacheOps
  /\ fetches' = fetches + 1
  /\ last' = Returned("get", u, CacheGet(cache, expirations, u, now))
  /\ UNCHANGED <<now, quotas, cache, expirations, apiProfiles, localStorage,
                 awaiting, reading, ticks>>

CacheGetStaleOp(u) ==
  /\ fetches < MaxCacheOps
  /\ fetches' = fetches + 1
  /\ last' = Returned("getEvenIfExpired", u, getEvenIfExpired(cache, u))
  /\ UNCHANGED <<now, quotas, cache, expirations, apiProfiles, localStorage,
                 awaiting, reading, ticks>>

CacheTick(d) ==
  /\ ticks < MaxCacheTicks
  /\ ticks' = ticks + 1
  /\ now' = now + d
  /\ UNCHANGED <<quotas, cache, expirations, apiProfiles, localStorage,
                 awaiting, reading, last, fetches>>

\* The sets made earlier in this page's life, replayed with set: log[lo..hi]
\* in order (the range is halved to keep the evaluation shallow).
RECURSIVE ReplaySets(_, _, _, _, _)
ReplaySets(st, u, log, lo, hi) ==
  IF lo = hi THEN CacheSet(st, u, log[lo].data, log[lo].t)
  ELSE LET mid == (lo + hi) \div 2
           left == ReplaySets(st, u, log, lo, mid)
       IN IF u \in DOMAIN left.cache THEN ReplaySets(left, u, log, mid + 1, hi) ELSE left

AfterSets(u, log) == IF log = <<>> THEN EmptyMemory ELSE ReplaySets(EmptyMemory, u, log, 1, Len(log))

SetAt(time, payload) == [t |-> time, data |-> payload]
\* 19 sets of one payload, 10 s apart, the latest 10 s ago
StaticSets == [i \in 1..19 |-> SetAt(T0 - 10000 * (20 - i), JsObjA)]
\* 6 sets whose payload alternates, 10 s apart, the latest 10 s ago
AlternatingSets ==
  [i \in 1..6 |-> SetAt(T0 - 10000 * (7 - i), IF i % 2 = 0 THEN JsObjA ELSE JsObjB)]
\* 4 sets whose payload alternates, all in the millisecond the clock shows
BurstSets == [i \in 1..4 |-> SetAt(T0, IF i % 2 = 0 THEN JsObjA ELSE JsObjB)]
\* 5 sets whose payload changes after 1 s, 1 s, 40 s and 1 s
IrregularSets ==
  << SetAt(T0 - 50000, JsObjA), SetAt(T0 - 49000, JsObjB), SetAt(T0 - 48000, JsObjA),
     SetAt(T0 - 8000, JsObjB), SetAt(T0 - 7000, JsObjA) >>

EarlierSets == {<<>>, StaticSets, AlternatingSets, BurstSets, IrregularSets}

InitCache ==
  /\ now = T0
  /\ \E log \in EarlierSets :
       LET st == AfterSets(U1, log)
       IN /\ cache = st.cache
          /\ expirations = st.expirations
          /\ apiProfiles = st.apiProfiles
          /\ localStorage = StorageOf(st, T0)
  /\ quotas = EmptyMap
  /\ awaiting = ZeroCounts
  /\ reading = ZeroReading
  /\ last = NoStep
  /\ ticks = 0
  /\ fetches = 0
  /\ poller = NoPoller
  /\ widgets = NoWidgets

NextCache ==
  \/ \E d \in CacheTickSet : CacheTick(d) /\ Idle
  \/ \E u \in CacheUrls, data \in CachePayloads : CacheSetOp(u, data) /\ Idle
  \/ \E u \in CacheUrls : CacheInvalidateOp(u) /\ Idle
  \/ CacheClearOp /\ Idle
  \/ \E u \in CacheUrls : CacheGetOp(u) /\ Idle
  \/ \E u \in CacheUrls : CacheGetStaleOp(u) /\ Idle

SpecCache == InitCache /\ [][NextCache]_vars

\* ========================================== SmartRateLimiter on its own
\* The limiter driven directly: canMakeRequest, recordSuccess, recordError,
\* handleRateLimitError, learnFromHeaders and getStatus at any time.
LimiterUrls == {U1, U2}
RetrySeconds == {NumV(5), NumV(60)}
LimiterTickSet == {1, 5000, 3600000}

\* both x-ratelimit-* and ratelimit-* are complete; only the second is exhausted
HeadersTwoVariants ==
  [n \in {"x-ratelimit-limit", "x-ratelimit-remaining",
          "ratelimit-limit", "ratelimit-remaining"} |->
     CASE n = "x-ratelimit-limit" -> Str2("6", "0")
       [] n = "x-ratelimit-remaining" -> <<"5">>
       [] n = "ratelimit-limit" -> Str2("1", "0")
       [] OTHER -> <<"0">>]

LimiterHeaderSets ==
  {NoHeaders, HeadersRemaining, HeadersExhausted, HeadersExhaustedReset,
   HeadersThirdVariant, HeadersTwoVariants, HeadersRetryZero}

\* the key's quota as getOrCreateQuota would hand it out at time t
QuotaOf(qs, u, t) == getOrCreateQuota(qs, u, t)[u]

\* last after a limiter operation: its argument, the key's quota before it
\* and what it answered
LimiterStep(opName, u, argument, answer) ==
  [op |-> opName, url |-> u, time |-> now, arg |-> argument,
   prior |-> QuotaOf(quotas, u, now), check |-> answer]

\* saveToStorage
LimiterSaved(qs) ==
  /\ quotas' = qs
  /\ localStorage' = [localStorage EXCEPT !.quotas = SavedQuotas(qs)]

CanMakeRequestOp(u) ==
  /\ fetches < MaxLimiterOps
  /\ fetches' = fetches + 1
  /\ quotas' = canMakeRequestQuotas(quotas, u, now)
  /\ localStorage' = IF canMakeRequestSaves(quotas, u, now)
                     THEN [localStorage EXCEPT !.quotas = SavedQuotas(quotas')]
                     ELSE localStorage
  /\ last' = LimiterStep("canMakeRequest", u, UndefV, canMakeRequest(quotas, u, now))
  /\ UNCHANGED <<now, cache, expirations, apiProfiles, awaiting, reading, ticks>>

RecordSuccessOp(u) ==
  /\ fetches < MaxLimiterOps
  /\ fetches' = fetches + 1
  /\ LimiterSaved(recordSuccess(quotas, u, now))
  /\ last' = LimiterStep("recordSuccess", u, UndefV, Allowed)
  /\ UNCHANGED <<now, cache, expirations, apiProfiles, awaiting, reading, ticks>>

RecordErrorOp(u) ==
  /\ fetches < MaxLimiterOps
  /\ fetches' = fetches + 1
  /\ LimiterSaved(recordError(quotas, u, now))
  /\ last' = LimiterStep("recordError", u, UndefV, Allowed)
  /\ UNCHANGED <<now, cache, expirations, apiProfiles, awaiting, reading, ticks>>

HandleRateLimitErrorOp(u, secs) ==
  /\ fetches < MaxLimiterOps
  /\ fetches' = fetches + 1
  /\ LimiterSaved(handleRateLimitError(quotas, u, secs, now))
  /\ last' = LimiterStep("handleRateLimitError", u, secs, Allowed)
  /\ UNCHANGED <<now, cache, expirations, apiProfiles, awaiting, reading, ticks>>

LearnFromHeadersOp(u, h) ==
  /\ fetches < MaxLimiterOps
  /\ fetches' = fetches + 1
  /\ quotas' = learnFromHeaders(quotas, u, h, now)
  /\ localStorage' = IF learnFromHeadersSaves(h)
                     THEN [localStorage EXCEPT !.quotas = SavedQuotas(quotas')]
                     ELSE localStorage
  /\ last' = LimiterStep("learnFromHeaders", u, h, Allowed)
  /\ UNCHANGED <<now, cache, expirations, apiProfiles, awaiting, reading, ticks>>

\* getStatus(url): the quota object itself, created when missing
GetStatusOp(u) ==
  /\ fetches < MaxLimiterOps
  /\ fetches' = fetches + 1
  /\ quotas' = getOrCreateQuota(quotas, u, now)
  /\ last' = LimiterStep("getStatus", u, UndefV, Allowed)
  /\ UNCHANGED <<now, cache, expirations, apiProfiles, localStorage,
                 awaiting, reading, ticks>>

LimiterTick(d) ==
  /\ ticks < MaxLimiterTicks
  /\ ticks' = ticks + 1
  /\ now' = now + d
  /\ UNCHANGED <<quotas, cache, expirations, apiProfiles, localStorage,
                 awaiting, reading, last, fetches>>

\* three polls that threw, 10 s apart, the latest 10 s ago
BackoffVisit ==
  [i \in 1..3 |-> Poll(T0 - 10000 * (4 - i), "throw", JsNull)]

LimiterVisits == {<<>>, BusyMinuteVisit, FailingVisit, BackoffVisit}

\* the limiter after the polls made earlier in this page's life
InitLimiter ==
  /\ now = T0
  /\ \E visit \in LimiterVisits :
       LET st == Replay(EmptyMemory, U1, visit)
       IN /\ quotas = st.quotas
          /\ cache = st.cache
          /\ expirations = st.expirations
          /\ apiProfiles = st.apiProfiles
          /\ localStorage = StorageOf(st, T0)
  /\ awaiting = ZeroCounts
  /\ reading = ZeroReading
  /\ last = NoStep
  /\ ticks = 0
  /\ fetches = 0
  /\ poller = NoPoller
  /\ widgets = NoWidgets

NextLimiter ==
  \/ \E d \in LimiterTickSet : LimiterTick(d) /\ Idle
  \/ \E u \in LimiterUrls : CanMakeRequestOp(u) /\ Idle
  \/ \E u \in LimiterUrls : RecordSuccessOp(u) /\ Idle
  \/ \E u \in LimiterUrls : RecordErrorOp(u) /\ Idle
  \/ \E u \in LimiterUrls, secs \in RetrySeconds : HandleRateLimitErrorOp(u, secs) /\ Idle
  \/ \E u \in LimiterUrls, h \in LimiterHeaderSets : LearnFromHeadersOp(u, h) /\ Idle
  \/ \E u \in LimiterUrls : GetStatusOp(u) /\ Idle

SpecLimiter == InitLimiter /\ [][NextLimiter]_vars

\* ========================================== fetchJson while learning
\* fetchJson on a page that has polled one endpoint four times with the same
\* answer, each poll after the entry of the poll before had expired, or that
\* has polled nothing yet.
LearningVisit ==
  [i \in 1..4 |-> Poll(T0 - 61000 * (5 - i), "ok", JsObjA)]

LearningVisits == {<<>>, LearningVisit}

InitLearning ==
  /\ now = T0
  /\ \E visit \in LearningVisits :
       /\ localStorage = StorageOf(Replay(EmptyMemory, U1, visit), T0)
       /\ LET st == LoadedMemory(localStorage, T0)
          IN /\ quotas = st.quotas
             /\ cache = st.cache
             /\ expirations = st.expirations
             /\ apiProfiles = st.apiProfiles
  /\ awaiting = ZeroCounts
  /\ reading = ZeroReading
  /\ last = NoStep
  /\ ticks = 0
  /\ fetches = 0
  /\ poller = NoPoller
  /\ widgets = NoWidgets

SpecLearning == InitLearning /\ [][Next]_vars

\* ================================================== normalizeData
\* normalizeData(raw) walks the adapter list.  What an adapter does with raw
\* is one of: detect returns false, detect throws, detect returns true and
\* normalize returns an object, returns something else, or throws.
AdapterNames ==
  <<"alphavantage", "coinbase", "graphql", "rest", "paginated", "timeseries",
    "generic_data", "universal">>

AdapterOutcome(found, made) == [detect |-> found, normalize |-> made]
AdapterOutcomes ==
  { AdapterOutcome("false", "none"), AdapterOutcome("throws", "none"),
    AdapterOutcome("true", "object"), AdapterOutcome("true", "other"),
    AdapterOutcome("true", "throws") }
\* detect of the universal adapter is () => true
UniversalOutcomes == {AdapterOutcome("true", "object"), AdapterOutcome("true", "throws")}

\* what each adapter of the list does with one input
AdapterBehaviours ==
  { b \in [1..Len(AdapterNames) -> AdapterOutcomes] :
      b[Len(AdapterNames)] \in UniversalOutcomes }

\* the loop that lets an adapter's exception escape
RECURSIVE RunAdaptersRethrowing(_, _, _)
RunAdaptersRethrowing(b, i, calls) ==
  IF i > Len(b) THEN [applied |-> 0, threw |-> FALSE, calls |-> calls]
  ELSE LET detected == Append(calls, <<"detect", i>>)
           normalized == Append(detected, <<"normalize", i>>)
       IN IF b[i].detect = "throws"
          THEN [applied |-> 0, threw |-> TRUE, calls |-> detected]
          ELSE IF b[i].detect = "false"
          THEN RunAdaptersRethrowing(b, i + 1, detected)
          ELSE IF b[i].normalize = "object"
          THEN [applied |-> i, threw |-> FALSE, calls |-> normalized]
          ELSE IF b[i].normalize = "throws"
          THEN [applied |-> 0, threw |-> TRUE, calls |-> normalized]
          ELSE RunAdaptersRethrowing(b, i + 1, normalized)

\* the for loop from adapter i on: the adapter whose result is returned (0
\* when raw itself is returned), whether an exception left normalizeData, and
\* the detect and normalize calls made, in order
RECURSIVE RunAdapters(_, _, _)
RunAdapters(b, i, calls) ==
  IF i > Len(b) THEN [applied |-> 0, threw |-> FALSE, calls |-> calls]
  ELSE LET detected == Append(calls, <<"detect", i>>)
           normalized == Append(detected, <<"normalize", i>>)
       IN IF b[i].detect # "true"
          THEN RunAdapters(b, i + 1, detected)
          ELSE IF b[i].normalize = "object"
          THEN [applied |-> i, threw |-> FALSE, calls |-> normalized]
          ELSE RunAdapters(b, i + 1, normalized)

normalizeData(b) == RunAdapters(b, 1, <<>>)

\* one call of normalizeData on an input the adapters treat as b
NormalizeCall(b) ==
  /\ fetches = 0
  /\ fetches' = 1
  /\ last' = [op |-> "normalizeData", url |-> "", time |-> now, arg |-> b,
              result |-> normalizeData(b)]
  /\ UNCHANGED <<now, quotas, cache, expirations, apiProfiles, localStorage,
                 awaiting, reading, ticks>>

InitNormalize ==
  /\ now = T0
  /\ quotas = EmptyMap
  /\ cache = EmptyMap
  /\ expirations = EmptyMap
  /\ apiProfiles = EmptyMap
  /\ localStorage = StorageOf(EmptyMemory, T0)
  /\ awaiting = ZeroCounts
  /\ reading = ZeroReading
  /\ last = NoStep
  /\ ticks = 0
  /\ fetches = 0
  /\ poller = NoPoller
  /\ widgets = NoWidgets

NextNormalize == fetches = 0 /\ \E b \in AdapterBehaviours : NormalizeCall(b) /\ Idle

SpecNormalize == InitNormalize /\ [][NextNormalize]_vars

\* ======================================= the adapters of dataMapper.ts
\* A JavaScript value as the adapters see it.  t is its type; n and e hold a
\* number n / 10^e (n is 1 for true); s the characters of a string; m the
\* members of an object in property order, or the elements of an array (with
\* empty keys).  A string is a sequence of one-character strings.
JsValue(type, num, exp, chars, members) ==
  [t |-> type, n |-> num, e |-> exp, s |-> chars, m |-> members]
JUndefined == JsValue("undefined", 0, 0, <<>>, <<>>)
JNull == JsValue("null", 0, 0, <<>>, <<>>)
JTrue == JsValue("boolean", 1, 0, <<>>, <<>>)
JFalse == JsValue("boolean", 0, 0, <<>>, <<>>)
JNum(n) == JsValue("number", n, 0, <<>>, <<>>)
JDec(n, e) == JsValue("number", n, e, <<>>, <<>>)
JStr(chars) == JsValue("string", 0, 0, chars, <<>>)
Member(k, v) == [key |-> k, val |-> v]
JArr(elements) ==
  JsValue("array", 0, 0, <<>>, [i \in 1..Len(elements) |-> Member(<<>>, elements[i])])
JObj(members) == JsValue("object", 0, 0, <<>>, members)

\* typeof x === "object"
TypeofObject(x) == x.t \in {"object", "array", "null"}
IsArray(x) == x.t = "array"

\* !!x
JsTruthy(x) ==
  CASE x.t \in {"undefined", "null"} -> FALSE
    [] x.t = "boolean" -> x.n = 1
    [] x.t = "number" -> x.n # 0
    [] x.t = "string" -> x.s # <<>>
    [] OTHER -> TRUE

\* a || b
JsOr(a, b) == IF JsTruthy(a) THEN a ELSE b

\* Object.keys(x) of an object or an array
RECURSIVE IndexChars(_)
IndexChars(n) ==
  IF n < 10 THEN <<Digits[n + 1]>> ELSE Append(IndexChars(n \div 10), Digits[(n % 10) + 1])

ObjectKeys(x) ==
  IF x.t = "array" THEN [i \in 1..Len(x.m) |-> IndexChars(i - 1)]
  ELSE [i \in 1..Len(x.m) |-> x.m[i].key]

HasOwn(x, k) == x.t = "object" /\ \E i \in 1..Len(x.m) : x.m[i].key = k

\* x.k for a key k that is no array index and not "length"
Get(x, k) ==
  IF HasOwn(x, k) THEN x.m[CHOOSE i \in 1..Len(x.m) : x.m[i].key = k].val
  ELSE JUndefined

\* x.length
LengthOf(x) ==
  CASE x.t = "array" -> JNum(Len(x.m))
    [] x.t = "string" -> JNum(Len(x.s))
    [] OTHER -> Get(x, <<"l", "e", "n", "g", "t", "h">>)

\* ------------------------------------------------------------- sanitizeKey
UpperCase ==
  <<"A", "B", "C", "D", "E", "F", "G", "H", "I", "J", "K", "L", "M",
    "N", "O", "P", "Q", "R", "S", "T", "U", "V", "W", "X", "Y", "Z">>
LowerCase ==
  <<"a", "b", "c", "d", "e", "f", "g", "h", "i", "j", "k", "l", "m",
    "n", "o", "p", "q", "r", "s", "t", "u", "v", "w", "x", "y", "z">>
IsUpper(c) == \E i \in 1..26 : UpperCase[i] = c
IsLower(c) == \E i \in 1..26 : LowerCase[i] = c
ToLower(c) == IF IsUpper(c) THEN LowerCase[CHOOSE i \in 1..26 : UpperCase[i] = c] ELSE c
\* \s and \w
IsSpace(c) == c \in {" ", "\t", "\n", "\r"}
IsWord(c) == IsUpper(c) \/ IsLower(c) \/ IsDigit(c) \/ c = "_"

Drop(s, k) == SubSeq(s, k + 1, Len(s))

\* the number of leading characters of s from position i on that satisfy the test
RECURSIVE SpacesFrom(_, _)
SpacesFrom(s, i) == IF i <= Len(s) /\ IsSpace(s[i]) THEN 1 + SpacesFrom(s, i + 1) ELSE 0
RECURSIVE DigitsFrom(_, _)
DigitsFrom(s, i) == IF i <= Len(s) /\ IsDigit(s[i]) THEN 1 + DigitsFrom(s, i + 1) ELSE 0
RECURSIVE SpacesBefore(_, _)
SpacesBefore(s, i) == IF i >= 1 /\ IsSpace(s[i]) THEN 1 + SpacesBefore(s, i - 1) ELSE 0

\* s.trim()
Trim(s) ==
  LET lead == SpacesFrom(s, 1)
  IN IF lead = Len(s) THEN <<>>
     ELSE SubSeq(s, lead + 1, Len(s) - SpacesBefore(s, Len(s)))

\* /^[A-Z]{2,}$/
AllCapitals(s) == Len(s) >= 2 /\ \A i \in 1..Len(s) : IsUpper(s[i])

\* /^\d{4}-\d{2}-\d{2}/ at the start of s
StartsWithDate(s) ==
  /\ Len(s) >= 10
  /\ \A i \in {1, 2, 3, 4, 6, 7, 9, 10} : IsDigit(s[i])
  /\ s[5] = "-" /\ s[8] = "-"

\* /^\d{4}-\d{2}-\d{2}$/
IsDate(s) ==
  /\ StartsWithDate(s)
  /\ Len(s) = 10

\* the length of the match of /^\d+\.\s*/ in s, 0 without a match
NumberPrefix(s) ==
  LET d == DigitsFrom(s, 1)
  IN IF d > 0 /\ d < Len(s) /\ s[d + 1] = "."
     THEN d + 1 + SpacesFrom(s, d + 2)
     ELSE 0

\* /^\d+\.\s+/
HasNumberedPrefix(s) ==
  LET d == DigitsFrom(s, 1)
  IN d > 0 /\ d < Len(s) /\ s[d + 1] = "." /\ SpacesFrom(s, d + 2) > 0

\* replace(/[^\w]+/g, "_"): every run of other characters becomes one "_"
RECURSIVE ReplaceNonWord(_, _)
ReplaceNonWord(s, i) ==
  IF i > Len(s) THEN <<>>
  ELSE IF IsWord(s[i]) THEN <<s[i]>> \o ReplaceNonWord(s, i + 1)
  ELSE IF i > 1 /\ ~IsWord(s[i - 1]) THEN ReplaceNonWord(s, i + 1)
  ELSE <<"_">> \o ReplaceNonWord(s, i + 1)

RECURSIVE UnderscoresFrom(_, _)
UnderscoresFrom(s, i) ==
  IF i <= Len(s) /\ s[i] = "_" THEN 1 + UnderscoresFrom(s, i + 1) ELSE 0
RECURSIVE UnderscoresBefore(_, _)
UnderscoresBefore(s, i) ==
  IF i >= 1 /\ s[i] = "_" THEN 1 + UnderscoresBefore(s, i - 1) ELSE 0

\* replace(/^_+|_+$/g, "")
StripUnderscores(s) ==
  LET lead == UnderscoresFrom(s, 1)
  IN IF lead = Len(s) THEN <<>>
     ELSE SubSeq(s, lead + 1, Len(s) - UnderscoresBefore(s, Len(s)))

sanitizeKey(key) ==
  LET s == Trim(key)
  IN IF AllCapitals(s) \/ IsDate(s) THEN s
     ELSE LET rest == Drop(s, NumberPrefix(s))
              lower == [i \in 1..Len(rest) |-> ToLower(rest[i])]
          IN StripUnderscores(ReplaceNonWord(lower, 1))

\* ------------------------------------------------------------ coerceValue
\* /^[+-]?\d+(\.\d+)?$/
IsDecimalText(s) ==
  LET first == IF Len(s) > 0 /\ s[1] \in {"+", "-"} THEN 2 ELSE 1
      d == DigitsFrom(s, first)
      rest == first + d
  IN /\ d > 0
     /\ \/ rest = Len(s) + 1
        \/ /\ rest < Len(s) /\ s[rest] = "."
           /\ DigitsFrom(s, rest + 1) = Len(s) - rest

\* a number without trailing zeros in its fraction
RECURSIVE Reduced(_, _)
Reduced(n, e) == IF e > 0 /\ n % 10 = 0 THEN Reduced(n \div 10, e - 1) ELSE JDec(n, e)

\* Number(s) for a text that IsDecimalText
NumberOf(s) ==
  LET negative == s[1] = "-"
      first == IF s[1] \in {"+", "-"} THEN 2 ELSE 1
      d == DigitsFrom(s, first)
      whole == ParseDigits(s, first, 0)
      fraction == IF first + d > Len(s) THEN 0 ELSE Len(s) - (first + d)
      mantissa == IF fraction = 0 THEN whole
                  ELSE ParseDigits(s, first + d + 1, whole)
  IN Reduced(IF negative THEN -mantissa ELSE mantissa, fraction)

coerceValue(value) ==
  IF value.t = "string" /\ IsDecimalText(Trim(value.s))
  THEN NumberOf(Trim(value.s))
  ELSE value

\* ------------------------------------------- the property names of the code
KeyData == <<"d", "a", "t", "a">>
KeyErrors == <<"e", "r", "r", "o", "r", "s">>
KeySuccess == <<"s", "u", "c", "c", "e", "s", "s">>
KeyStatus == <<"s", "t", "a", "t", "u", "s">>
KeyResults == <<"r", "e", "s", "u", "l", "t", "s">>
KeyItems == <<"i", "t", "e", "m", "s">>
KeyPage == <<"p", "a", "g", "e">>
KeyCurrentPage == <<"c", "u", "r", "r", "e", "n", "t", "_", "p", "a", "g", "e">>
KeyTotal == <<"t", "o", "t", "a", "l">>
KeyTotalCount == <<"t", "o", "t", "a", "l", "_", "c", "o", "u", "n", "t">>
KeyPerPage == <<"p", "e", "r", "_", "p", "a", "g", "e">>
KeyPageSize == <<"p", "a", "g", "e", "_", "s", "i", "z", "e">>
KeyCurrency == <<"c", "u", "r", "r", "e", "n", "c", "y">>
KeyRates == <<"r", "a", "t", "e", "s">>
KeyBase == <<"b", "a", "s", "e">>
KeyValue == <<"v", "a", "l", "u", "e">>
KeyPagination == <<"p", "a", "g", "i", "n", "a", "t", "i", "o", "n">>
KeyTimeSeries == <<"t", "i", "m", "e", "_", "s", "e", "r", "i", "e", "s">>
KeyMetaData == <<"M", "e", "t", "a", " ", "D", "a", "t", "a">>
KeyGlobalQuote == <<"G", "l", "o", "b", "a", "l", " ", "Q", "u", "o", "t", "e">>
KeyTimeSeriesDaily == <<"T", "i", "m", "e", " ", "S", "e", "r", "i", "e", "s", " ", "(", "D", "a", "i", "l", "y", ")">>
KeyRealtimeRate == <<"R", "e", "a", "l", "t", "i", "m", "e", " ", "C", "u", "r", "r", "e", "n", "c", "y", " ", "E", "x", "c", "h", "a", "n", "g", "e", " ", "R", "a", "t", "e">>
TimeSeriesPrefix == <<"T", "i", "m", "e", " ", "S", "e", "r", "i", "e", "s">>
TextSuccess == <<"s", "u", "c", "c", "e", "s", "s">>

\* ----------------------------------------------------------- deepNormalize
\* an array index as a property name: "0", or digits without a leading zero
IsIndexKey(k) ==
  /\ Len(k) \in 1..9
  /\ \A i \in 1..Len(k) : IsDigit(k[i])
  /\ (Len(k) > 1 => k[1] # "0")

\* out[k] = v: an existing property keeps its place; a new index comes after
\* the smaller indices, before every other name; another new name comes last
SetProperty(members, k, v) ==
  IF \E i \in 1..Len(members) : members[i].key = k
  THEN [i \in 1..Len(members) |->
          IF members[i].key = k THEN Member(k, v) ELSE members[i]]
  ELSE IF IsIndexKey(k)
  THEN LET before == Cardinality({i \in 1..Len(members) :
                        /\ IsIndexKey(members[i].key)
                        /\ ParseDigits(members[i].key, 1, 0) < ParseDigits(k, 1, 0)})
       IN SubSeq(members, 1, before) \o <<Member(k, v)>>
          \o SubSeq(members, before + 1, Len(members))
  ELSE Append(members, Member(k, v))

RECURSIVE deepNormalize(_)
RECURSIVE NormalizeEntries(_, _, _)
\* the for loop over Object.entries(value), from entry i on
NormalizeEntries(entries, i, out) ==
  IF i > Len(entries) THEN out
  ELSE NormalizeEntries(entries, i + 1,
         SetProperty(out, sanitizeKey(entries[i].key), deepNormalize(entries[i].val)))

deepNormalize(value) ==
  IF value.t = "array"
  THEN JArr([i \in 1..Len(value.m) |-> deepNormalize(value.m[i].val)])
  ELSE IF value.t = "object"
  THEN JObj(NormalizeEntries(value.m, 1, <<>>))
  ELSE coerceValue(value)

Envelope(x) == JObj(<<Member(KeyData, x)>>)

\* ------------------------------------------------------------ the adapters
StartsWith(s, prefix) ==
  Len(s) >= Len(prefix) /\ SubSeq(s, 1, Len(prefix)) = prefix

\* !input || typeof input !== "object"
NotAnObject(input) == ~JsTruthy(input) \/ ~TypeofObject(input)

\* a detector that knows the four fixed names only
alphaVantageDetectFixedNames(input) ==
  IF NotAnObject(input) THEN FALSE
  ELSE LET keys == ObjectKeys(input)
       IN \E i \in 1..Len(keys) :
            keys[i] \in {KeyGlobalQuote, KeyTimeSeriesDaily, KeyRealtimeRate}

alphaVantageDetect(input) ==
  IF NotAnObject(input) THEN FALSE
  ELSE LET keys == ObjectKeys(input)
       IN \E i \in 1..Len(keys) :
            \/ keys[i] \in {KeyMetaData, KeyGlobalQuote, KeyTimeSeriesDaily, KeyRealtimeRate}
            \/ StartsWith(keys[i], TimeSeriesPrefix)
            \/ HasNumberedPrefix(keys[i])
alphaVantageNormalize(input) == Envelope(deepNormalize(input))

coinbaseDetect(input) ==
  IF NotAnObject(input) THEN FALSE
  ELSE LET data == Get(input, KeyData)
       IN /\ JsTruthy(data)
          /\ JsTruthy(JsOr(JsOr(Get(data, KeyCurrency), Get(data, KeyRates)),
                           Get(data, KeyBase)))
coinbaseNormalize(input) == Envelope(deepNormalize(Get(input, KeyData)))

restApiDetect(input) ==
  IF NotAnObject(input) THEN FALSE
  ELSE /\ \/ Get(input, KeySuccess) = JTrue
          \/ Get(input, KeyStatus) = JStr(TextSuccess)
       /\ Get(input, KeyData) # JUndefined
restApiNormalize(input) == Envelope(deepNormalize(Get(input, KeyData)))

paginatedDetect(input) ==
  IF NotAnObject(input) THEN FALSE
  ELSE \/ IsArray(Get(input, KeyResults))
       \/ IsArray(Get(input, KeyItems))
       \/ JsTruthy(Get(input, KeyData)) /\ IsArray(Get(input, KeyData))
paginatedNormalize(input) ==
  LET items == JsOr(JsOr(Get(input, KeyResults), Get(input, KeyItems)),
                    Get(input, KeyData))
  IN Envelope(JObj(<<
       Member(KeyItems, deepNormalize(items)),
       Member(KeyPagination, JObj(<<
         Member(KeyPage, JsOr(JsOr(Get(input, KeyPage), Get(input, KeyCurrentPage)),
                              JNum(1))),
         Member(KeyTotal, JsOr(JsOr(Get(input, KeyTotal), Get(input, KeyTotalCount)),
                               LengthOf(items))),
         Member(KeyPerPage, JsOr(JsOr(Get(input, KeyPerPage), Get(input, KeyPageSize)),
                                 LengthOf(items))) >>)) >>))

graphqlDetect(input) ==
  IF NotAnObject(input) THEN FALSE
  ELSE Get(input, KeyData) # JUndefined /\ Get(input, KeyErrors) = JUndefined
graphqlNormalize(input) == Envelope(deepNormalize(Get(input, KeyData)))

timeSeriesDetect(input) ==
  IF NotAnObject(input) THEN FALSE
  ELSE LET keys == ObjectKeys(input)
           dateKeys == {i \in 1..Len(keys) : StartsWithDate(keys[i])}
       \* dateKeys.length / keys.length > 0.5
       IN Cardinality(dateKeys) > 0 /\ 2 * Cardinality(dateKeys) > Len(keys)
timeSeriesNormalize(input) ==
  Envelope(JObj(<<Member(KeyTimeSeries, deepNormalize(input))>>))

genericDataDetect(input) ==
  IF NotAnObject(input) THEN FALSE ELSE HasOwn(input, KeyData)
genericDataNormalize(input) == Envelope(deepNormalize(Get(input, KeyData)))

\* a fallback that hands a primitive back bare
universalNormalizeBare(input) ==
  IF input.t \in {"null", "undefined"} THEN Envelope(JNull)
  ELSE IF ~TypeofObject(input) THEN coerceValue(input)
  ELSE Envelope(deepNormalize(input))

universalDetect(input) == TRUE
universalNormalize(input) ==
  IF input.t \in {"null", "undefined"} THEN Envelope(JNull)
  ELSE IF ~TypeofObject(input)
  THEN Envelope(JObj(<<Member(KeyValue, coerceValue(input))>>))
  ELSE LET normalized == deepNormalize(input)
           hasTopLevelData == /\ HasOwn(normalized, KeyData)
                              /\ TypeofObject(Get(normalized, KeyData))
       IN IF hasTopLevelData /\ Len(ObjectKeys(normalized)) = 1
          THEN Envelope(Get(normalized, KeyData))
          ELSE Envelope(normalized)

\* adapters[i].detect(raw) is truthy, for the list in its order
Detects(i, raw) ==
  CASE i = 1 -> alphaVantageDetect(raw)
    [] i = 2 -> coinbaseDetect(raw)
    [] i = 3 -> graphqlDetect(raw)
    [] i = 4 -> restApiDetect(raw)
    [] i = 5 -> paginatedDetect(raw)
    [] i = 6 -> timeSeriesDetect(raw)
    [] i = 7 -> genericDataDetect(raw)
    [] OTHER -> universalDetect(raw)

\* adapters[i].normalize(raw)
Normalizes(i, raw) ==
  CASE i = 1 -> alphaVantageNormalize(raw)
    [] i = 2 -> coinbaseNormalize(raw)
    [] i = 3 -> graphqlNormalize(raw)
    [] i = 4 -> restApiNormalize(raw)
    [] i = 5 -> paginatedNormalize(raw)
    [] i = 6 -> timeSeriesNormalize(raw)
    [] i = 7 -> genericDataNormalize(raw)
    [] OTHER -> universalNormalize(raw)

\* what the shipped adapters do with raw: none of them throws on a value
\* that JSON.parse can give
BehaviourOf(raw) ==
  [i \in 1..Len(AdapterNames) |->
     IF ~Detects(i, raw) THEN AdapterOutcome("false", "none")
     ELSE LET normalized == Normalizes(i, raw)
          IN IF JsTruthy(normalized) /\ TypeofObject(normalized)
             THEN AdapterOutcome("true", "object")
             ELSE AdapterOutcome("true", "other")]

\* normalizeData(raw) with the shipped adapters: the adapter applied (0 for
\* none) and the value returned
normalizeDataOf(raw) ==
  LET run == normalizeData(BehaviourOf(raw))
  IN [adapter |-> IF run.applied = 0 THEN "none" ELSE AdapterNames[run.applied],
      applied |-> run.applied,
      threw |-> run.threw,
      value |-> IF run.applied = 0 THEN raw ELSE Normalizes(run.applied, raw)]

\* ------------------------------------------------- the values normalized
\* {x: 1}, {data: {x: 1}} and the other values a response can hold under a key
ObjX == JObj(<<Member(<<"x">>, JNum(1))>>)
SlotValues ==
  << [key |-> KeyMetaData,
      vals |-> {JObj(<<Member(<<"1", ".", " ", "I", "n", "f", "o", "r", "m", "a", "t", "i", "o", "n">>, JStr(<<"D", "a", "i", "l", "y">>))>>)}],
     [key |-> <<"T", "i", "m", "e", " ", "S", "e", "r", "i", "e", "s", " ", "(", "5", "m", "i", "n", ")">>,
      vals |-> {JObj(<<Member(<<"2", "0", "2", "4", "-", "0", "1", "-", "0", "2">>, JObj(<<Member(<<"1", ".", " ", "o", "p", "e", "n">>, JStr(<<"1", ".", "5", "0">>))>>))>>)}],
     [key |-> KeyData,
      vals |-> {JNull, JNum(0), ObjX, Envelope(ObjX), JArr(<<JObj(<<Member(<<"x">>, JStr(<<"2">>))>>)>>),
                JObj(<<Member(KeyCurrency, JStr(<<"U", "S", "D">>))>>)}],
     [key |-> KeyErrors, vals |-> {JNull, JArr(<<JStr(<<"b", "a", "d">>)>>)}],
     [key |-> KeySuccess, vals |-> {JTrue, JFalse}],
     [key |-> KeyStatus, vals |-> {JStr(TextSuccess)}],
     [key |-> KeyResults, vals |-> {JArr(<<JNum(1), JNum(2)>>), JStr(<<"n", "o">>)}],
     [key |-> KeyItems, vals |-> {JArr(<<>>)}],
     [key |-> KeyPage, vals |-> {JNum(2)}],
     [key |-> <<"2", "0", "2", "4", "-", "0", "1", "-", "0", "2">>, vals |-> {JNum(3)}],
     [key |-> <<"2", "0", "2", "4", "-", "0", "1", "-", "0", "3", " ", "1", "6", ":", "0", "0">>, vals |-> {JStr(<<" ", "4", " ">>)}],
     [key |-> <<"x">>, vals |-> {JNum(1)}],
     [key |-> <<"D", "a", "t", "a">>, vals |-> {ObjX}],
     [key |-> <<"U", "S", "D">>, vals |-> {JStr(<<"+", "7", ".", "0">>)}] >>

\* the member lists that take at most room members from slot i on, in slot order
RECURSIVE MembersFrom(_, _)
MembersFrom(i, room) ==
  IF i > Len(SlotValues) \/ room = 0 THEN {<<>>}
  ELSE MembersFrom(i + 1, room)
       \cup { <<Member(SlotValues[i].key, v)>> \o rest :
                v \in SlotValues[i].vals, rest \in MembersFrom(i + 1, room - 1) }

RawObjects == { JObj(members) : members \in MembersFrom(1, MaxMembers) }
RawOthers ==
  { JUndefined, JNull, JTrue, JFalse, JNum(0), JNum(5), JStr(<<>>), JStr(<<" ", "1", "2", " ">>),
    JStr(<<"a", "b", "c">>), JArr(<<>>), JArr(<<ObjX>>), JArr(<<JNum(1), JStr(<<"2">>)>>) }
RawInputs == RawObjects \cup RawOthers

\* one call normalizeData(raw) with the shipped adapters
NormalizeRaw(raw) ==
  /\ fetches = 0
  /\ fetches' = 1
  /\ last' = [op |-> "normalize", url |-> "", time |-> now, arg |-> raw,
              result |-> normalizeDataOf(raw)]
  /\ UNCHANGED <<now, quotas, cache, expirations, apiProfiles, localStorage,
                 awaiting, reading, ticks>>

NextAdapters == fetches = 0 /\ \E raw \in RawInputs : NormalizeRaw(raw) /\ Idle

SpecAdapters == InitNormalize /\ [][NextAdapters]_vars

\* ================================================ persistence and restart
\* Both singletons with their storage: every mutating operation followed by
\* its saveToStorage, and a restart of the page that constructs both anew.
\* localStorage.window tells whether `typeof window` is defined at all.
PersistedStorage(hasWindow, st, t) ==
  [window |-> hasWindow,
   quotas |-> IF hasWindow THEN SavedQuotas(st.quotas) ELSE EmptyMap,
   cache |-> IF hasWindow THEN SavedCache(st.cache, st.expirations, t) ELSE EmptyMap,
   profiles |-> IF hasWindow THEN SavedProfiles(st.apiProfiles) ELSE EmptyMap]

\* saveToStorage that leaves the sample values in the stored profiles
cacheSaveToStorageWithValues(ls, st, t) ==
  IF ~ls.window THEN ls
  ELSE [ls EXCEPT !.cache = SavedCache(st.cache, st.expirations, t),
                  !.profiles = [u \in DOMAIN st.apiProfiles |->
                                  [st.apiProfiles[u] EXCEPT
                                     !.confidence = SavedConfidence(@),
                                     !.samples = LastN(@, SAVED_SAMPLES)]]]

\* AdaptiveCache.saveToStorage
cacheSaveToStorage(ls, st, t) ==
  IF ~ls.window THEN ls
  ELSE [ls EXCEPT !.cache = SavedCache(st.cache, st.expirations, t),
                  !.profiles = SavedProfiles(st.apiProfiles)]

\* SmartRateLimiter.saveToStorage
limiterSaveToStorage(ls, qs) ==
  IF ~ls.window THEN ls ELSE [ls EXCEPT !.quotas = SavedQuotas(qs)]

\* both constructors
loadFromStorage(ls, t) == IF ~ls.window THEN EmptyMemory ELSE LoadedMemory(ls, t)

PersistUrls == {U1, U2}
PersistPayloads == {JsObjA, JsZero}
PersistTickSet == {1, 1000, 60001}
PersistRetrySeconds == {NumV(5)}

PersistStep(opName, u, argument) ==
  [op |-> opName, url |-> u, time |-> now, arg |-> argument]

PersistCacheDone(opName, u, argument, st) ==
  /\ fetches < MaxPersistOps
  /\ fetches' = fetches + 1
  /\ cache' = st.cache
  /\ expirations' = st.expirations
  /\ apiProfiles' = st.apiProfiles
  /\ localStorage' = cacheSaveToStorage(localStorage, st, now)
  /\ last' = PersistStep(opName, u, argument)
  /\ UNCHANGED <<now, quotas, awaiting, reading, ticks>>

PersistLimiterDone(opName, u, argument, qs, saves) ==
  /\ fetches < MaxPersistOps
  /\ fetches' = fetches + 1
  /\ quotas' = qs
  /\ localStorage' = IF saves THEN limiterSaveToStorage(localStorage, qs)
                     ELSE localStorage
  /\ last' = PersistStep(opName, u, argument)
  /\ UNCHANGED <<now, cache, expirations, apiProfiles, awaiting, reading, ticks>>

PersistSet(u, data) == PersistCacheDone("set", u, data, CacheSet(Memory, u, data, now))
PersistInvalidate(u) == PersistCacheDone("invalidate", u, JsNull, invalidate(Memory, u))
PersistClear == PersistCacheDone("clear", "", JsNull, clear(Memory))

PersistCanMakeRequest(u) ==
  PersistLimiterDone("canMakeRequest", u, JsNull, canMakeRequestQuotas(quotas, u, now),
                     canMakeRequestSaves(quotas, u, now))
PersistRecordSuccess(u) ==
  PersistLimiterDone("recordSuccess", u, JsNull, recordSuccess(quotas, u, now), TRUE)
PersistRecordError(u) ==
  PersistLimiterDone("recordError", u, JsNull, recordError(quotas, u, now), TRUE)
PersistRateLimited(u, secs) ==
  PersistLimiterDone("handleRateLimitError", u, secs,
                     handleRateLimitError(quotas, u, secs, now), TRUE)

\* the page is loaded again: new AdaptiveCache(), new SmartRateLimiter()
Restart ==
  /\ last.op # "restart"
  /\ LET st == loadFromStorage(localStorage, now)
     IN /\ quotas' = st.quotas
        /\ cache' = st.cache
        /\ expirations' = st.expirations
        /\ apiProfiles' = st.apiProfiles
  /\ last' = PersistStep("restart", "", JsNull)
  /\ UNCHANGED <<now, localStorage, awaiting, reading, ticks, fetches>>

PersistTick(d) ==
  /\ ticks < MaxPersistTicks
  /\ ticks' = ticks + 1
  /\ now' = now + d
  /\ UNCHANGED <<quotas, cache, expirations, apiProfiles, localStorage,
                 awaiting, reading, last, fetches>>

\* 7 values stored 61 s apart, the payload changing every time, the latest
\* one second before the page loads
LongVisit ==
  [i \in 1..7 |->
     Poll(T0 - 1000 - 61000 * (7 - i), "ok", IF i % 2 = 0 THEN JsObjA ELSE JsObjB)]
PersistVisits == {<<>>, BusyMinuteVisit, FailingVisit, EmptyBodyVisit, LongVisit}

InitPersist ==
  /\ now = T0
  /\ \E visit \in PersistVisits, hasWindow \in BOOLEAN :
       LET st == Replay(EmptyMemory, U1, visit)
       IN /\ localStorage = PersistedStorage(hasWindow, st, T0)
          /\ quotas = st.quotas
          /\ cache = st.cache
          /\ expirations = st.expirations
          /\ apiProfiles = st.apiProfiles
  /\ awaiting = ZeroCounts
  /\ reading = ZeroReading
  /\ last = PersistStep("none", "", JsNull)
  /\ ticks = 0
  /\ fetches = 0
  /\ poller = NoPoller
  /\ widgets = NoWidgets

NextPersist ==
  \/ \E d \in PersistTickSet : PersistTick(d) /\ Idle
  \/ \E u \in PersistUrls, data \in PersistPayloads : PersistSet(u, data) /\ Idle
  \/ \E u \in PersistUrls : PersistInvalidate(u) /\ Idle
  \/ PersistClear /\ Idle
  \/ \E u \in PersistUrls : PersistCanMakeRequest(u) /\ Idle
  \/ \E u \in PersistUrls : PersistRecordSuccess(u) /\ Idle
  \/ \E u \in PersistUrls : PersistRecordError(u) /\ Idle
  \/ \E u \in PersistUrls, secs \in PersistRetrySeconds : PersistRateLimited(u, secs) /\ Idle
  \/ Restart /\ Idle

SpecPersist == InitPersist /\ [][NextPersist]_vars

\* ================================================================= claims
\* r is the least number of whole seconds that covers ms milliseconds
IsCeilSeconds(r, ms) == r * 1000 >= ms /\ (r - 1) * 1000 < ms
\* r = ceil(1.5^(n - 3) * 5)
IsBackoff(r, n) ==
  /\ r * Pow(2, n - 3) >= 5 * Pow(3, n - 3)
  /\ (r - 1) * Pow(2, n - 3) < 5 * Pow(3, n - 3)

ThrottledNow(q) == IsNum(q.throttledUntil) /\ now < q.throttledUntil.v

\* C1: for every key, canMakeRequest denies while 30 requests are counted in
\* the running minute window (the 31st call), and allows a call again once
\* that window has rolled over (more than 60 s since its start), provided no
\* throttle, hour limit, spacing or error backoff applies.
C1_MinuteLimit ==
  \A u \in DOMAIN quotas :
    LET q == quotas[u]
        chk == canMakeRequest(quotas, u, now)
        other == \/ ThrottledNow(q)
                 \/ q.requestsThisHour >= 200 /\ now - q.hourStartTime <= 3600000
                 \/ now - q.lastRequestTime < 500
                 \/ q.consecutiveErrors >= 3
    IN /\ (q.requestsThisMinute >= 30 /\ now - q.minuteStartTime <= 60000)
            => ~chk.allowed /\ chk.reason \in {"throttled", "minute"}
       /\ (q.requestsThisMinute >= 30 /\ now - q.minuteStartTime > 60000 /\ ~other)
            => chk.allowed

\* a poll was denied for the minute limit, and after the window rolled over
\* the same key is allowed again
C1_Witness ==
  /\ last.op = "start" /\ last.check.reason = "minute"
  /\ last.url \in DOMAIN quotas
  /\ quotas[last.url].requestsThisMinute >= 30
  /\ now - quotas[last.url].minuteStartTime > 60000
  /\ canMakeRequest(quotas, last.url, now).allowed

\* C2: canMakeRequest reports the first of the five checks that matches, in
\* the order throttle, minute limit, hour limit, spacing, consecutive errors,
\* with that check's retryAfter, and allows exactly when none matches.
C2_FirstMatchWins ==
  \A u \in DOMAIN quotas :
    LET q == NormalizeWindows(quotas[u], now)
        chk == canMakeRequest(quotas, u, now)
        c1 == ThrottledNow(q)
        c2 == q.requestsThisMinute >= 30
        c3 == q.requestsThisHour >= 200
        c4 == now - q.lastRequestTime < 500
        c5 == q.consecutiveErrors >= 3
        first == IF c1 THEN "throttled" ELSE IF c2 THEN "minute" ELSE IF c3 THEN "hour"
                 ELSE IF c4 THEN "spacing" ELSE IF c5 THEN "errors" ELSE "none"
    IN /\ chk.allowed <=> ~(c1 \/ c2 \/ c3 \/ c4 \/ c5)
       /\ chk.reason = first
       /\ first = "throttled" => IsCeilSeconds(chk.retryAfter.v, q.throttledUntil.v - now)
       /\ first = "minute" => IsCeilSeconds(chk.retryAfter.v, q.minuteStartTime + 60000 - now)
       /\ first = "hour" => IsCeilSeconds(chk.retryAfter.v, q.hourStartTime + 3600000 - now)
       /\ first = "spacing" => IsCeilSeconds(chk.retryAfter.v, 500 - (now - q.lastRequestTime))
       /\ first = "errors" => IsBackoff(chk.retryAfter.v, q.consecutiveErrors)
       /\ first # "none" => IsNum(chk.retryAfter)

\* a poll was denied for the minute limit while the hour limit and the spacing
\* check matched as well
C2_Witness ==
  /\ last.op = "start" /\ last.check.reason = "minute"
  /\ last.url \in DOMAIN quotas
  /\ quotas[last.url].requestsThisHour >= 200
  /\ now - quotas[last.url].lastRequestTime < 500
  /\ now = last.time

\* C3: with 3 or more consecutive errors on a key, spacing elapsed and no
\* throttle or window limit, canMakeRequest denies with retryAfter =
\* ceil(1.5^(consecutiveErrors - 3) * 5) seconds (5, 8, 12, 17, ...), and one
\* more recordError makes the retryAfter strictly larger.
C3_ErrorBackoff ==
  \A u \in DOMAIN quotas :
    LET q == NormalizeWindows(quotas[u], now)
        n == q.consecutiveErrors
        chk == canMakeRequest(quotas, u, now)
        further == canMakeRequest(recordError(quotas, u, now), u, now + 500)
    IN (/\ n >= 3 /\ ~ThrottledNow(q)
        /\ q.requestsThisMinute < 30 /\ q.requestsThisHour < 200
        /\ now - q.lastRequestTime >= 500)
       => /\ ~chk.allowed /\ chk.reason = "errors"
          /\ IsBackoff(chk.retryAfter.v, n)
          /\ n = 3 => chk.retryAfter.v = 5
          /\ n = 4 => chk.retryAfter.v = 8
          /\ n = 5 => chk.retryAfter.v = 12
          /\ n = 6 => chk.retryAfter.v = 17
          /\ further.reason = "errors"
          /\ further.retryAfter.v > chk.retryAfter.v

\* a fourth consecutive transport failure, after which the key is denied for
\* 8 seconds
C3_Witness ==
  /\ last.op = "catch"
  /\ last.url \in DOMAIN quotas
  /\ quotas[last.url].consecutiveErrors = 4
  /\ now - quotas[last.url].lastRequestTime >= 500
  /\ canMakeRequest(quotas, last.url, now).reason = "errors"
  /\ canMakeRequest(quotas, last.url, now).retryAfter.v = 8

\* C4: a poll denied for consecutive errors reported retryAfter seconds; once
\* the clock has passed that many seconds since the denial, with nothing else
\* done to the key, canMakeRequest allows the key again.
C4_BackoffExpires ==
  (/\ last.op = "start" /\ last.check.reason = "errors"
   /\ now >= last.time + 1000 * last.check.retryAfter.v)
  => canMakeRequest(quotas, last.url, now).allowed

\* C5: whenever canMakeRequest denies the key, fetchJson makes no transport
\* call; if a cached value exists for the key (fresh or expired) the result is
\* that value tagged as throttled with a retryAfter hint, and otherwise the
\* result is ok = false carrying the hint.  (Stated for the cached values
\* that getEvenIfExpired reports.)
C5_DeniedServesStaleTagged ==
  (last.op = "start" /\ IsValidUrl(last.url) /\ ~last.check.allowed)
  => /\ ~last.transport
     /\ last.returned
     /\ last.result.quotaInfo.isThrottled
     /\ IsNum(last.result.quotaInfo.retryAfter)
     /\ IF getEvenIfExpired(cache, last.url) # JsNull
        THEN last.result.ok /\ last.result.data = cache[last.url]
        ELSE ~last.result.ok

\* C6: a fetchJson call that finds a fresh value with AdaptiveCache.get returns
\* it without a transport call and leaves the key's requestCount,
\* lastRequestTime, consecutiveErrors and throttledUntil unchanged and its
\* window counters unchanged up to the lazy window reset; every other key is
\* untouched; a transport call is issued only when canMakeRequest allowed and
\* get missed.
C6_FreshHitShortCircuits ==
  [][\A u \in Urls :
       FetchStart(u) =>
         LET hit == CacheGet(cache, expirations, u, now) # JsNull
             chk == canMakeRequest(quotas, u, now)
         IN /\ hit =>
                 /\ ~last'.transport /\ awaiting' = awaiting
                 /\ last'.returned /\ last'.result.ok /\ last'.result.cached
                 /\ last'.result.data = cache[u]
                 /\ \A v \in DOMAIN quotas \ {u} : quotas'[v] = quotas[v]
                 /\ u \in DOMAIN quotas =>
                      /\ quotas'[u].requestCount = quotas[u].requestCount
                      /\ quotas'[u].lastRequestTime = quotas[u].lastRequestTime
                      /\ quotas'[u].consecutiveErrors = quotas[u].consecutiveErrors
                      /\ quotas'[u].throttledUntil = quotas[u].throttledUntil
                      /\ quotas'[u].requestsThisMinute =
                           IF now - quotas[u].minuteStartTime > 60000 THEN 0
                           ELSE quotas[u].requestsThisMinute
                      /\ quotas'[u].requestsThisHour =
                           IF now - quotas[u].hourStartTime > 3600000 THEN 0
                           ELSE quotas[u].requestsThisHour
            /\ (last'.transport \/ awaiting' # awaiting) => chk.allowed /\ ~hit
            /\ (chk.allowed /\ ~hit) => last'.transport /\ awaiting'[u] = awaiting[u] + 1
    ]_vars

\* a fresh hit was served to a poll whose check reset the key's minute window
C6_Witness ==
  /\ last.op = "start" /\ last.returned /\ ~last.transport
  /\ last.result.ok /\ last.result.cached /\ ~last.result.quotaInfo.isThrottled
  /\ last.url \in DOMAIN quotas
  /\ quotas[last.url].minuteStartTime = last.time
  /\ quotas[last.url].requestCount >= 1

\* C7: a response with a status outside 2xx other than 429, or a 2xx response
\* with an HTML body, is recorded as an error only: the key's requestCount and
\* window counters do not grow and consecutiveErrors grows by one, so that k
\* such responses in a row leave consecutiveErrors = k.
C7_FailuresAreErrorsOnly ==
  [][\A u \in Urls, r \in Responses :
       (ResponseHttpError(u, r) \/ ResponseHtml(u, r)) =>
         /\ quotas'[u].requestCount = quotas[u].requestCount
         /\ quotas'[u].requestsThisMinute <= quotas[u].requestsThisMinute
         /\ quotas'[u].requestsThisHour <= quotas[u].requestsThisHour
         /\ quotas'[u].consecutiveErrors = quotas[u].consecutiveErrors + 1
    ]_vars

\* C8: on every failure path of fetchJson after URL validation (denial,
\* transport error, 429, other non-2xx, invalid JSON, HTML body) a cached
\* value of the key, even an expired one, is returned with ok = true.
\* (Stated for the cached values that getEvenIfExpired reports.)
C8_StaleBeatsFailure ==
  (/\ last.returned /\ IsValidUrl(last.url)
   /\ \/ last.op \in {"catch", "429", "http-error", "html", "bad-json"}
      \/ last.op = "start" /\ ~last.check.allowed
   /\ getEvenIfExpired(cache, last.url) # JsNull)
  => last.result.ok /\ last.result.data = cache[last.url]

\* C9: when the transport call throws, the key's consecutiveErrors grows by
\* exactly one and its counters stay; the result is the cached value with
\* ok = true if the key has one, else an ok = false network failure; the cache
\* entry and its expiration are unchanged.
C9_TransportFailure ==
  [][\A u \in Urls :
       FetchThrows(u) =>
         /\ quotas'[u].consecutiveErrors = quotas[u].consecutiveErrors + 1
         /\ quotas'[u].requestCount = quotas[u].requestCount
         /\ quotas'[u].requestsThisMinute = quotas[u].requestsThisMinute
         /\ quotas'[u].requestsThisHour = quotas[u].requestsThisHour
         /\ cache' = cache /\ expirations' = expirations
         /\ last'.returned
         /\ IF u \in DOMAIN cache
            THEN last'.result.ok /\ last'.result.data = cache[u]
            ELSE ~last'.result.ok /\ last'.result.message = "Network error"
    ]_vars

\* the retry-after header in seconds, 60 when it is missing or does not parse
RetryAfterOr60(h) ==
  IF "retry-after" \in DOMAIN h /\ IsNum(parseInt(h["retry-after"]))
  THEN parseInt(h["retry-after"]).v ELSE 60

\* C10: a response with status 429 leaves throttledUntil = response time +
\* retry-after * 1000 (retry-after 60 when the header is missing or does not
\* parse), canMakeRequest denies the key as throttled at every time before
\* that, and the result is the cached value if the key has one, else
\* ok = false.
C10_RateLimitedResponse ==
  [][\A u \in Urls, r \in Responses :
       ResponseRateLimited(u, r) =>
         LET until == now + RetryAfterOr60(r.headers) * 1000
         IN /\ quotas'[u].throttledUntil = NumV(until)
            /\ \A t \in {now, now + 1, until - 1} :
                 t < until => canMakeRequest(quotas', u, t).reason = "throttled"
            /\ last'.returned
            /\ IF u \in DOMAIN cache
               THEN last'.result.ok /\ last'.result.data = cache[u]
               ELSE ~last'.result.ok
    ]_vars

\* C11: a fetchJson call with a malformed URL returns ok = false and changes
\* nothing: no quota, cache entry, expiration or profile is created or
\* changed, nothing is saved and no transport call is made.
C11_InvalidUrlTouchesNothing ==
  [][\A u \in Urls :
       (fetches' = fetches + 1 /\ last'.url = u /\ ~IsValidUrl(u)) =>
         /\ last'.returned /\ ~last'.result.ok /\ ~last'.transport
         /\ quotas' = quotas
         /\ cache' = cache /\ expirations' = expirations
         /\ apiProfiles' = apiProfiles
         /\ localStorage' = localStorage
         /\ awaiting' = awaiting /\ reading' = reading
    ]_vars

\* a malformed URL was rejected while another key had a quota and a cached
\* value
C11_Witness ==
  /\ last.op = "start" /\ last.url = UBad /\ last.returned /\ ~last.result.ok
  /\ UBad \notin DOMAIN quotas /\ quotas # EmptyMap
  /\ UBad \notin DOMAIN cache /\ cache # EmptyMap

\* C12: with several polls of one key in flight, a transport call is admitted
\* only against quota state that counts the calls issued before it: no two
\* transport calls for one key are issued less than 500 ms apart, and
\* requestsThisMinute never exceeds 30.
C12_ConcurrentAdmission ==
  [][\A u \in Urls :
       /\ (/\ FetchStart(u) /\ last'.transport
           /\ last.op = "start" /\ last.transport /\ last.url = u)
          => now - last.time >= 500
       /\ u \in DOMAIN quotas' => quotas'[u].requestsThisMinute <= 30
    ]_vars

\* the key has an entry that has not expired at time t
FreshEntry(u, t) ==
  u \in DOMAIN cache /\ u \in DOMAIN expirations /\ t <= expirations[u]

\* C13: get(key) returns the stored value if and only if an entry exists and
\* now <= its expiration, and reports absent otherwise; get changes no entry,
\* expiration or profile.
C13_GetIffFresh ==
  [][\A u \in CacheUrls :
       CacheGetOp(u) =>
         /\ IF FreshEntry(u, now)
            THEN last'.result.ok /\ last'.result.data = cache[u]
            ELSE ~last'.result.ok
         /\ cache' = cache /\ expirations' = expirations
         /\ apiProfiles' = apiProfiles
    ]_vars

\* C14: after set at time t0 with a profile of confidence > 70 and selected
\* TTL T, get returns the value at every time before t0 + T and reports
\* absent at every time at or after t0 + T, and getEvenIfExpired returns the
\* value at all those times.
C14_ExpiresAtTTL ==
  (/\ last.op = "set"
   /\ ConfidenceAbove(apiProfiles[last.url].confidence, 70))
  => LET u == last.url
         T == apiProfiles[u].recommendedTTL
     IN /\ expirations[u] = last.time + T
        /\ now < last.time + T =>
             CacheGet(cache, expirations, u, now) = last.result.data
        /\ now >= last.time + T =>
             CacheGet(cache, expirations, u, now) = JsNull
        /\ getEvenIfExpired(cache, u) = last.result.data

\* C15: every value passed to set, falsy ones included, is what a later
\* getEvenIfExpired returns and what get returns while the entry has not
\* expired; getEvenIfExpired reports absent only for a key without an entry.
C15_StaleReturnsWhatWasSet ==
  \A u \in CacheUrls :
    IF u \in DOMAIN cache
    THEN /\ getEvenIfExpired(cache, u) = cache[u]
         /\ FreshEntry(u, now) => CacheGet(cache, expirations, u, now) = cache[u]
    ELSE getEvenIfExpired(cache, u) = JsNull

\* the step is a call of the named cache operation
CacheCall(opName) == fetches' = fetches + 1 /\ last'.op = opName

\* C16: invalidate(key) removes only that key's entry and expiration, clear()
\* removes all of them, neither changes any profile, and a set of a key that
\* has a profile but no entry continues that profile and takes its TTL from it.
C16_InvalidateKeepsProfiles ==
  [][LET u == last'.url
     IN /\ CacheCall("invalidate") =>
             /\ DOMAIN cache' = DOMAIN cache \ {u}
             /\ DOMAIN expirations' = DOMAIN expirations \ {u}
             /\ \A v \in DOMAIN cache' : cache'[v] = cache[v]
             /\ \A v \in DOMAIN expirations' : expirations'[v] = expirations[v]
             /\ apiProfiles' = apiProfiles
        /\ CacheCall("clear") =>
             /\ DOMAIN cache' = {} /\ DOMAIN expirations' = {}
             /\ apiProfiles' = apiProfiles
        /\ (CacheCall("set") /\ u \notin DOMAIN cache /\ u \in DOMAIN apiProfiles) =>
             LET learned == apiProfiles[u].samples
                 p == apiProfiles'[u]
             IN /\ Len(p.samples) = Min(MAX_SAMPLES, Len(learned) + 1)
                /\ learned # <<>> =>
                     p.samples[Len(p.samples) - 1] = learned[Len(learned)]
                /\ ConfidenceAbove(p.confidence, 70) =>
                     expirations'[u] = now + p.recommendedTTL
    ]_vars

\* a key with a learned profile was invalidated while another key keeps its entry
C16_Witness ==
  /\ last.op = "invalidate"
  /\ last.url \notin DOMAIN cache
  /\ last.url \in DOMAIN apiProfiles
  /\ Len(apiProfiles[last.url].samples) >= MIN_SAMPLES
  /\ DOMAIN cache # {}

\* C17: in every reachable state every profile's recommendedTTL lies in
\* [MIN_TTL, MAX_TTL] = [5000 ms, 86400000 ms].
C17_TTLClamped ==
  \A u \in DOMAIN apiProfiles :
    /\ apiProfiles[u].recommendedTTL >= 5000
    /\ apiProfiles[u].recommendedTTL <= 86400000

\* a set left a profile whose 0.8 x mean interval is below MIN_TTL
C17_Witness ==
  /\ last.op = "set"
  /\ LET p == apiProfiles[last.url]
     IN /\ p.updateFrequency.k = "num"
        /\ 4 * p.updateFrequency.sum < 5 * p.updateFrequency.n * MIN_TTL
        /\ p.recommendedTTL = MIN_TTL

OldestToNewest(samples) ==
  \A i \in 1..(Len(samples) - 1) : samples[i].timestamp <= samples[i + 1].timestamp

SamplesBounded ==
  \A u \in DOMAIN apiProfiles :
    /\ Len(apiProfiles[u].samples) <= 20
    /\ OldestToNewest(apiProfiles[u].samples)

SetAppendsOneSample ==
  CacheCall("set") =>
    LET u == last'.url
        old == IF u \in DOMAIN apiProfiles THEN apiProfiles[u].samples ELSE <<>>
        sample == [hash |-> hashData(last'.result.data), timestamp |-> now,
                   value |-> last'.result.data]
    IN /\ apiProfiles'[u].samples =
            (IF Len(old) < 20 THEN old ELSE Tail(old)) \o <<sample>>
       /\ \A v \in DOMAIN apiProfiles \ {u} : apiProfiles'[v] = apiProfiles[v]

\* C18: a profile's history holds at most 20 samples, oldest to newest; each
\* set appends exactly one sample at the end and, at 20, evicts the oldest.
C18_SampleHistory == []SamplesBounded /\ [][SetAppendsOneSample]_vars

\* a set on a full history evicted the oldest of the earlier samples
C18_Witness ==
  /\ last.op = "set" /\ last.url = U1
  /\ Len(apiProfiles[U1].samples) = 20
  /\ apiProfiles[U1].samples[1].timestamp = T0 - 180000
  /\ apiProfiles[U1].samples[20].timestamp = last.time

\* C19: in every reachable state every profile's confidence is a number in
\* the range 0..100, payloads changing at identical timestamps included.
C19_ConfidenceInRange ==
  \A u \in DOMAIN apiProfiles :
    LET c == apiProfiles[u].confidence
    IN /\ c.k = "num"
       /\ c.v >= 0
       /\ c.v < 100 \/ (c.v = 100 /\ ~c.frac)

SamePayloads(samples) ==
  \A i, j \in 1..Len(samples) : samples[i].value = samples[j].value

\* C20: a profile whose samples all carry the same payload has, from 5
\* samples on, updateFrequency null, isRealtime false, recommendedTTL MAX_TTL
\* and confidence 90; a profile with fewer than 5 samples keeps the initial
\* estimate.
C20_StaticData ==
  \A u \in DOMAIN apiProfiles :
    LET p == apiProfiles[u]
    IN /\ Len(p.samples) < 5 =>
            /\ p.updateFrequency = MeanNull /\ ~p.isRealtime
            /\ p.recommendedTTL = 60000 /\ p.confidence = Conf(0, FALSE)
       /\ (Len(p.samples) >= 5 /\ SamePayloads(p.samples)) =>
            /\ p.updateFrequency = MeanNull /\ ~p.isRealtime
            /\ p.recommendedTTL = 86400000 /\ p.confidence = Conf(90, FALSE)

\* a set of the same payload again on a history of identical payloads
C20_Witness ==
  /\ last.op = "set"
  /\ LET p == apiProfiles[last.url]
     IN /\ Len(p.samples) >= 5 /\ SamePayloads(p.samples)
        /\ p.samples[Len(p.samples)].timestamp = last.time
        /\ p.recommendedTTL = MAX_TTL

\* the positions of the samples whose hash differs from the sample before
Transitions(samples) ==
  {i \in 2..Len(samples) : samples[i].hash # samples[i - 1].hash}

RECURSIVE IntervalSum(_, _)
IntervalSum(samples, I) ==
  IF I = {} THEN 0
  ELSE LET i == CHOOSE j \in I : TRUE
       IN samples[i].timestamp - samples[i - 1].timestamp
          + IntervalSum(samples, I \ {i})

\* every observation differs from the one before and comes exactly 10 s after
\* it, with at least 5 transitions
AlternatesEveryTenSeconds(samples) ==
  /\ Len(samples) >= 6
  /\ \A i \in 2..Len(samples) :
       /\ samples[i].value # samples[i - 1].value
       /\ samples[i].timestamp - samples[i - 1].timestamp = 10000

\* C21: a payload that alternates at every observation, 10 s apart, for at
\* least 5 transitions gives recommendedTTL 8000 ms, confidence 100 and
\* isRealtime; in general recommendedTTL = clamp(5000, 86400000, floor(0.8 x
\* the mean interval between consecutive samples whose hashes differ)).
C21_AlternatingTTL ==
  \A u \in DOMAIN apiProfiles :
    LET p == apiProfiles[u]
        S == IntervalSum(p.samples, Transitions(p.samples))
        n == Cardinality(Transitions(p.samples))
    IN /\ AlternatesEveryTenSeconds(p.samples) =>
            /\ p.recommendedTTL = 8000
            /\ p.confidence = Conf(100, FALSE)
            /\ p.isRealtime
       /\ (Len(p.samples) >= 5 /\ n > 0) =>
            p.recommendedTTL = Max(5000, Min(86400000, (4 * S) \div (5 * n)))

\* a set continued an alternation of 10 s steps
C21_Witness ==
  /\ last.op = "set"
  /\ LET s == apiProfiles[last.url].samples
     IN AlternatesEveryTenSeconds(s) /\ s[Len(s)].timestamp = last.time

\* C22: the TTL a set uses is recommendedTTL if the profile's confidence is
\* above 70, else MIN_TTL (5 s) if it is realtime, else the default 60 s; so
\* with a confidence of 70 or less the entry expires at most 60 s after the set.
C22_TTLSelection ==
  [][CacheCall("set") =>
       LET u == last'.url
           p == apiProfiles'[u]
           ttl == expirations'[u] - now
       IN /\ ttl = IF ConfidenceAbove(p.confidence, 70) THEN p.recommendedTTL
                   ELSE IF p.isRealtime THEN 5000
                   ELSE 60000
          /\ ~ConfidenceAbove(p.confidence, 70) => ttl <= 60000
    ]_vars

\* a set on a realtime profile of low confidence took MIN_TTL, not the
\* recommended TTL
C22_Witness ==
  /\ last.op = "set"
  /\ LET p == apiProfiles[last.url]
     IN /\ p.confidence.k = "num" /\ ~ConfidenceAbove(p.confidence, 70)
        /\ p.isRealtime
        /\ p.recommendedTTL # MIN_TTL
        /\ expirations[last.url] = last.time + MIN_TTL

\* the step is a call of the named limiter operation
LimiterCall(opName) == fetches' = fetches + 1 /\ last'.op = opName

\* every key but u keeps its quota
OtherKeysUnchanged(u) ==
  /\ DOMAIN quotas' = DOMAIN quotas \cup {u}
  /\ \A v \in DOMAIN quotas \ {u} : quotas'[v] = quotas[v]

\* C23: recordSuccess(key) normalizes the windows, then adds exactly one to
\* requestCount, requestsThisMinute and requestsThisHour, sets lastRequestTime
\* to now and consecutiveErrors to 0, clears throttledUntil, and changes no
\* other key.
C23_RecordSuccess ==
  [][LimiterCall("recordSuccess") =>
       LET u == last'.url
           q == QuotaOf(quotas, u, now)
           q1 == quotas'[u]
           minuteOver == now - q.minuteStartTime > 60000
           hourOver == now - q.hourStartTime > 3600000
       IN /\ q1.requestCount = q.requestCount + 1
          /\ q1.requestsThisMinute = (IF minuteOver THEN 0 ELSE q.requestsThisMinute) + 1
          /\ q1.requestsThisHour = (IF hourOver THEN 0 ELSE q.requestsThisHour) + 1
          /\ q1.minuteStartTime = IF minuteOver THEN now ELSE q.minuteStartTime
          /\ q1.hourStartTime = IF hourOver THEN now ELSE q.hourStartTime
          /\ q1.lastRequestTime = now
          /\ q1.consecutiveErrors = 0
          /\ q1.throttledUntil = NullV
          /\ OtherKeysUnchanged(u)
    ]_vars

\* recordSuccess on a key whose minute had elapsed, beside another key
C23_Witness ==
  /\ last.op = "recordSuccess"
  /\ last.time - last.prior.minuteStartTime > 60000
  /\ last.prior.requestsThisMinute > 1
  /\ quotas[last.url].requestsThisMinute = 1
  /\ quotas[last.url].requestCount = last.prior.requestCount + 1
  /\ Cardinality(DOMAIN quotas) = 2

\* C24: recordError(key) adds exactly one to consecutiveErrors and sets
\* lastRequestTime to now, and leaves requestCount, requestsThisMinute,
\* requestsThisHour, both window starts, throttledUntil and detectedLimits
\* unchanged.
C24_RecordError ==
  [][LimiterCall("recordError") =>
       LET u == last'.url
           q == QuotaOf(quotas, u, now)
           q1 == quotas'[u]
       IN /\ q1.consecutiveErrors = q.consecutiveErrors + 1
          /\ q1.lastRequestTime = now
          /\ q1.requestCount = q.requestCount
          /\ q1.requestsThisMinute = q.requestsThisMinute
          /\ q1.requestsThisHour = q.requestsThisHour
          /\ q1.minuteStartTime = q.minuteStartTime
          /\ q1.hourStartTime = q.hourStartTime
          /\ q1.throttledUntil = q.throttledUntil
          /\ q1.detectedLimits = q.detectedLimits
    ]_vars

\* recordError on a throttled key with counted requests and learned limits
C24_Witness ==
  /\ last.op = "recordError"
  /\ last.prior.requestsThisMinute > 0
  /\ last.prior.throttledUntil # NullV
  /\ last.prior.detectedLimits # UndefV
  /\ quotas[last.url].consecutiveErrors = last.prior.consecutiveErrors + 1
  /\ quotas[last.url].lastRequestTime = last.time

ThrottleSet ==
  LimiterCall("handleRateLimitError") =>
    LET u == last'.url
        q == QuotaOf(quotas, u, now)
        q1 == quotas'[u]
    IN /\ q1.throttledUntil = NumV(now + last'.arg.v * 1000)
       /\ q1.consecutiveErrors = 0
       /\ q1.requestCount = q.requestCount
       /\ q1.requestsThisMinute = q.requestsThisMinute
       /\ q1.requestsThisHour = q.requestsThisHour
       /\ q1.minuteStartTime = q.minuteStartTime
       /\ q1.hourStartTime = q.hourStartTime
       /\ q1.lastRequestTime = q.lastRequestTime

ThrottleDenies ==
  last.op = "handleRateLimitError" =>
    LET until == last.time + last.arg.v * 1000
        answer == canMakeRequest(quotas, last.url, now)
    IN now < until =>
         /\ ~answer.allowed
         /\ answer.reason = "throttled"
         /\ answer.retryAfter = NumV(CeilDiv(until - now, 1000))

\* C25: handleRateLimitError(key, s) sets throttledUntil = now + s*1000 and
\* consecutiveErrors = 0 and leaves the counters, window starts and
\* lastRequestTime unchanged; afterwards canMakeRequest denies with the
\* throttled reason at every time strictly before throttledUntil, whatever
\* the consecutive-error count was before.
C25_ThrottleSignal == []ThrottleDenies /\ [][ThrottleSet]_vars

\* the signal came for a key in error backoff and the throttle has not run out
C25_Witness ==
  /\ last.op = "handleRateLimitError"
  /\ last.prior.consecutiveErrors >= 3
  /\ now > last.time
  /\ now < quotas[last.url].throttledUntil.v
  /\ canMakeRequest(quotas, last.url, now).reason = "throttled"

\* the header-name variant has both its limit and its remaining header
VariantPresent(h, i) ==
  patterns[i].limit \in DOMAIN h /\ patterns[i].remaining \in DOMAIN h

\* C26: learnFromHeaders(key, headers) takes the first of the variants
\* x-ratelimit-*, ratelimit-*, x-rate-limit-* that has both limit and
\* remaining: it records detectedLimits from it and, if remaining <= 0,
\* throttles the key for the reset header's seconds (60 s without a reset
\* header); if no variant has both, the quota is unchanged.
C26_LearnFromHeaders ==
  [][LimiterCall("learnFromHeaders") =>
       LET u == last'.url
           h == last'.arg
           q == QuotaOf(quotas, u, now)
           q1 == quotas'[u]
       IN IF \A i \in 1..3 : ~VariantPresent(h, i)
          THEN q1 = q
          ELSE LET i == CHOOSE j \in 1..3 :
                          VariantPresent(h, j) /\ \A k \in 1..(j - 1) : ~VariantPresent(h, k)
                   remaining == parseInt(h[patterns[i].remaining])
               IN /\ q1.detectedLimits.requestsPerMinute = parseInt(h[patterns[i].limit])
                  /\ q1.detectedLimits.remainingCalls = remaining
                  /\ IF IsNum(remaining) /\ remaining.v <= 0
                     THEN \E secs \in 0..100 :
                            /\ IF patterns[i].reset \in DOMAIN h
                               THEN parseInt(h[patterns[i].reset]) = NumV(secs)
                               ELSE secs = 60
                            /\ q1.throttledUntil = NumV(now + secs * 1000)
                            /\ canMakeRequest(quotas', u, now + secs * 1000 - 1).reason
                                 = "throttled"
                     ELSE q1.throttledUntil = q.throttledUntil
    ]_vars

\* C27: immediately after canMakeRequest, recordSuccess, recordError,
\* handleRateLimitError or getStatus on a key, now - minuteStartTime <= 60000
\* and now - hourStartTime <= 3600000: no counter is kept for an elapsed window.
C27_WindowsNormalized ==
  [][(/\ fetches' = fetches + 1
      /\ last'.op \in {"canMakeRequest", "recordSuccess", "recordError",
                       "handleRateLimitError", "getStatus"}) =>
       LET q1 == quotas'[last'.url]
       IN /\ now - q1.minuteStartTime <= 60000
          /\ now - q1.hourStartTime <= 3600000
    ]_vars

SameHashes(samples) ==
  \A i, j \in 1..Len(samples) : samples[i].hash = samples[j].hash

\* a successful fetch reports learningMode exactly while the profile holds
\* fewer than 5 samples; the fifth of identical content gets MAX_TTL
LearningReported ==
  (last.op = "success" /\ last.returned) =>
    LET samples == apiProfiles[last.url].samples
    IN /\ last.result.ok /\ ~last.result.cached
       /\ last.result.learningMode = (Len(samples) < 5)
       /\ (Len(samples) = 5 /\ SameHashes(samples)) =>
            /\ ~last.result.learningMode
            /\ expirations[last.url] = last.time + 86400000

\* the first call for an endpoint the page has never asked goes to transport
FirstCallHitsTransport ==
  (/\ fetches' = fetches + 1 /\ last'.op = "start"
   /\ IsValidUrl(last'.url)
   /\ last'.url \notin DOMAIN quotas /\ last'.url \notin DOMAIN cache
   /\ last'.url \notin DOMAIN apiProfiles)
  => last'.transport /\ ~last'.returned

\* C28: the first fetchJson call for a new endpoint performs a transport call
\* and its success reports learningMode = true; a successful fetch reports
\* learningMode = true exactly when the profile holds fewer than 5 samples
\* after the set, so the 5th successful fetch of identical content reports
\* false and stores the entry with MAX_TTL.
C28_LearningMode == []LearningReported /\ [][FirstCallHitsTransport]_vars

\* the fifth successful fetch of the same content
C28_Witness ==
  /\ last.op = "success"
  /\ Len(apiProfiles[last.url].samples) = 5
  /\ SameHashes(apiProfiles[last.url].samples)
  /\ ~last.result.learningMode
  /\ expirations[last.url] = last.time + MAX_TTL

\* C29: on a successful response fetchJson stores the normalized {data: ...}
\* envelope in the cache and returns it, so the cached value and the value of
\* the uncached success path are the same envelope.
C29_StoresNormalizedEnvelope ==
  [][(last'.op = "success" /\ last' # last) =>
       LET u == last'.url
       IN /\ cache'[u] = last'.result.data
          /\ HasDataMember(cache'[u])
          /\ HasDataMember(last'.result.data)
    ]_vars

\* adapter i detects the input and normalizes it to an object
AdapterSucceeds(b, i) == b[i].detect = "true" /\ b[i].normalize = "object"

\* C30: normalizeData applies the first adapter of the list whose detect
\* returns true and whose normalize returns an object; an adapter whose detect
\* or normalize throws is passed over without failing the call, and no
\* adapter after the first successful one is run.
C30_FirstAdapterWins ==
  last.op = "normalizeData" =>
    LET b == last.arg
        r == last.result
        passed == IF r.applied = 0 THEN Len(b) ELSE r.applied
    IN /\ ~r.threw
       /\ IF \E i \in 1..Len(b) : AdapterSucceeds(b, i)
          THEN /\ r.applied \in 1..Len(b)
               /\ AdapterSucceeds(b, r.applied)
               /\ \A j \in 1..(r.applied - 1) : ~AdapterSucceeds(b, j)
          ELSE r.applied = 0
       \* every adapter up to the applied one was asked, in list order, and
       \* none after it
       /\ \A k \in 1..Len(r.calls) : r.calls[k][2] <= passed
       /\ \A k \in 1..(Len(r.calls) - 1) : r.calls[k][2] <= r.calls[k + 1][2]
       /\ \A j \in 1..passed :
            /\ \E k \in 1..Len(r.calls) : r.calls[k] = <<"detect", j>>
            /\ (\E k \in 1..Len(r.calls) : r.calls[k] = <<"normalize", j>>)
                 <=> b[j].detect = "true"

\* an adapter was applied after one detect and one normalize before it threw
C30_Witness ==
  /\ last.op = "normalizeData"
  /\ last.result.applied > 2
  /\ last.result.applied < Len(AdapterNames)
  /\ \E j \in 1..(last.result.applied - 1) : last.arg[j].detect = "throws"
  /\ \E j \in 1..(last.result.applied - 1) :
       last.arg[j].detect = "true" /\ last.arg[j].normalize = "throws"

\* the adapters in the order the specification gives: provider shapes, the
\* success envelope, the paginated list, GraphQL, time series, data, universal
SpecifiedPriority == <<1, 2, 4, 5, 3, 6, 7, 8>>

\* C31: the adapter applied is the first one, in the priority alphavantage,
\* coinbase, rest, paginated, graphql, timeseries, generic_data, universal,
\* whose detector matches; an input that matches both the paginated and the
\* GraphQL detector is normalized by the paginated adapter.
C31_AdapterPriority ==
  last.op = "normalize" =>
    LET raw == last.arg
        first == CHOOSE k \in 1..Len(SpecifiedPriority) :
                   /\ Detects(SpecifiedPriority[k], raw)
                   /\ \A j \in 1..(k - 1) : ~Detects(SpecifiedPriority[j], raw)
    IN /\ last.result.applied = SpecifiedPriority[first]
       /\ (paginatedDetect(raw) /\ graphqlDetect(raw)) =>
            last.result.adapter = "paginated"

\* C32: normalizeData({data: {data: {x: 1}}}) returns {data: {x: 1}}.
C32_UnwrapsOnce ==
  (last.op = "normalize" /\ last.arg = Envelope(Envelope(ObjX))) =>
    last.result.value = Envelope(ObjX)

\* the object has a "Meta Data" key or a key starting with "Time Series"
HasSeriesKey(raw) ==
  /\ raw.t = "object"
  /\ \E i \in 1..Len(raw.m) :
       raw.m[i].key = KeyMetaData \/ StartsWith(raw.m[i].key, TimeSeriesPrefix)

\* C33: an object with a top-level "Meta Data" key or a key starting with
\* "Time Series" is normalized by the alphavantage adapter, whatever other
\* keys it has, and never by the universal fallback.
C33_SeriesGoesToAlphaVantage ==
  (last.op = "normalize" /\ HasSeriesKey(last.arg)) =>
    /\ last.result.adapter = "alphavantage"
    /\ last.result.value = Envelope(deepNormalize(last.arg))

\* an object with a "Time Series (5min)" key, a data key and a third key
C33_Witness ==
  /\ last.op = "normalize"
  /\ HasSeriesKey(last.arg)
  /\ ~HasOwn(last.arg, KeyMetaData)
  /\ HasOwn(last.arg, KeyData)
  /\ Len(last.arg.m) = 3
  /\ last.result.adapter = "alphavantage"

\* C34: normalizeData returns without throwing for every input, and what it
\* returns is an object with a top-level data key.
C34_Total ==
  last.op = "normalize" =>
    /\ ~last.result.threw
    /\ last.result.applied # 0
    /\ last.result.value.t = "object"
    /\ HasOwn(last.result.value, KeyData)

\* a string went through the universal fallback
C34_Witness ==
  /\ last.op = "normalize"
  /\ last.arg.t = "string"
  /\ last.result.adapter = "universal"
  /\ Get(last.result.value, KeyData).t = "object"

\* the instants at which the original and the reconstructed objects are asked
LaterClocks == {now, now + 1000, now + 60001}

\* new AdaptiveCache() and new SmartRateLimiter() built now from the snapshot
\* answer as the objects in memory do
RoundTrip ==
  localStorage.window =>
    LET rebuilt == loadFromStorage(localStorage, now)
    IN \A u \in PersistUrls, t \in LaterClocks :
         /\ CacheGet(rebuilt.cache, rebuilt.expirations, u, t)
              = CacheGet(cache, expirations, u, t)
         /\ getEvenIfExpired(rebuilt.cache, u) = getEvenIfExpired(cache, u)
         /\ canMakeRequest(rebuilt.quotas, u, t) = canMakeRequest(quotas, u, t)

\* a stored profile holds the hash and the timestamp of the latest five
\* samples in memory and no value
SamplesStripped ==
  localStorage.window =>
    /\ DOMAIN localStorage.profiles = DOMAIN apiProfiles
    /\ \A u \in DOMAIN apiProfiles :
         LET inMemory == apiProfiles[u].samples
             stored == localStorage.profiles[u].samples
             skipped == Len(inMemory) - Len(stored)
         IN /\ Len(stored) = Min(Len(inMemory), 5)
            /\ \A i \in 1..Len(stored) :
                 /\ stored[i].hash = inMemory[skipped + i].hash
                 /\ stored[i].timestamp = inMemory[skipped + i].timestamp
                 /\ stored[i].value = JsNull

PersistCall(opName) == fetches' = fetches + 1 /\ last'.op = opName

\* without a window nothing is stored or loaded, and with or without one the
\* operations have the same effect in memory
SameInMemory ==
  /\ ~localStorage.window => localStorage' = localStorage
  /\ (~localStorage.window /\ last'.op = "restart" /\ last.op # "restart") =>
       /\ cache' = EmptyMap /\ expirations' = EmptyMap
       /\ apiProfiles' = EmptyMap /\ quotas' = EmptyMap
  /\ PersistCall("set") =>
       /\ cache'[last'.url] = last'.arg
       /\ expirations'[last'.url] >= now + 5000
       /\ LET s == apiProfiles'[last'.url].samples
          IN s[Len(s)].timestamp = now /\ s[Len(s)].value = last'.arg
  /\ PersistCall("invalidate") =>
       /\ last'.url \notin DOMAIN cache' \cup DOMAIN expirations'
       /\ apiProfiles' = apiProfiles
  /\ PersistCall("clear") => cache' = EmptyMap /\ expirations' = EmptyMap
  /\ PersistCall("recordSuccess") =>
       quotas'[last'.url].requestCount = QuotaOf(quotas, last'.url, now).requestCount + 1
  /\ PersistCall("recordError") =>
       quotas'[last'.url].consecutiveErrors
         = QuotaOf(quotas, last'.url, now).consecutiveErrors + 1
  /\ PersistCall("handleRateLimitError") =>
       canMakeRequest(quotas', last'.url, now) = Denied("throttled", last'.arg.v)

\* C35: objects constructed from the saved snapshot answer get,
\* getEvenIfExpired and canMakeRequest as the originals at the same clock;
\* stored profiles keep the hash and timestamp of the latest samples without
\* their values; without storage every operation works in memory alone.
C35_PersistenceRoundTrip ==
  /\ []RoundTrip
  /\ []SamplesStripped
  /\ [][SameInMemory]_vars

\* the page was loaded again from a snapshot whose profile was cut to five
\* samples, and the value stored before is still served
C35_Witness ==
  /\ last.op = "restart"
  /\ localStorage.window
  /\ fetches > 0
  /\ U1 \in DOMAIN cache
  /\ CacheGet(cache, expirations, U1, now) # JsNull
  /\ Len(apiProfiles[U1].samples) = 5

\* C36: while a key is throttled, no step other than a new
\* handleRateLimitError (a 429 response) clears throttledUntil or moves it to
\* an earlier instant; the completion of a request that was in flight when
\* the throttle was set does not re-enable requests early.
C36_ThrottleNotCleared ==
  [][\A u \in Urls :
       (/\ u \in DOMAIN quotas
        /\ ThrottledNow(quotas[u])
        /\ last'.op # "429")
       => /\ u \in DOMAIN quotas'
          /\ IsNum(quotas'[u].throttledUntil)
          /\ quotas'[u].throttledUntil.v >= quotas[u].throttledUntil.v
    ]_vars

\* C37: every denial of canMakeRequest carries a retryAfter of at least one
\* second, also at the exact end of the minute or hour window, so the hint
\* fetchJson reports is the limiter's value and not the 60 s used for a
\* missing one.
C37_DenialHasRetryAfter ==
  (last.op = "start" /\ last.returned /\ ~last.check.allowed) =>
    /\ IsNum(last.check.retryAfter)
    /\ last.check.retryAfter.v >= 1
    \* the call that found no fresh value reports the denial
    /\ last.result.quotaInfo.isThrottled =>
         last.result.quotaInfo.retryAfter = last.check.retryAfter

\* C38: the value map and the expiration map of AdaptiveCache always have
\* the same keys.
C38_MapsInStep == DOMAIN cache = DOMAIN expirations

\* an entry was invalidated next to another one, and the page was loaded
\* again from what was stored
C38_Witness ==
  /\ last.op = "restart"
  /\ localStorage.window
  /\ fetches = 2
  /\ DOMAIN cache = {U2}
  /\ U1 \in DOMAIN apiProfiles


\* ==================================================== startPolling
\* poller.timer is the closure's timer (0 for null), poller.intervals the
\* interval timers the host still runs, poller.calls every invocation of fn:
\* when it happened and which timer made it (0 for the call start makes itself)
PollEvery == {0, 500, 1000, 1500}
PollTickSet == {500, 1000}

Invoke(p, t, id) == [p EXCEPT !.calls = Append(@, [time |-> t, timer |-> id])]

\* timer = setInterval(() => void fn(), Math.max(1000, everyMs)); void fn()
SetIntervalAndCall(p, t) ==
  LET delay == Max(1000, p.everyMs)
      id == p.nextId
  IN Invoke([p EXCEPT !.timer = id,
                      !.nextId = id + 1,
                      !.intervals = @ \cup {[id |-> id, delay |-> delay, due |-> t + delay]}],
            t, 0)

\* if (timer) clearInterval(timer); timer = null
stop(p) ==
  [p EXCEPT !.intervals = IF p.timer # 0 THEN {i \in @ : i.id # p.timer} ELSE @,
            !.timer = 0]

\* a start that does not stop the running timer first
startWithoutStop(p, t) == SetIntervalAndCall(p, t)

start(p, t) == SetIntervalAndCall(stop(p), t)

PollerOnly ==
  UNCHANGED <<quotas, cache, expirations, apiProfiles, localStorage, awaiting,
              reading, last, widgets>>

PollStart ==
  /\ fetches < MaxPollOps
  /\ Len(poller.calls) < MaxPollCalls
  /\ poller' = start(poller, now)
  /\ fetches' = fetches + 1
  /\ UNCHANGED <<now, ticks>>
  /\ PollerOnly

PollStop ==
  /\ fetches < MaxPollOps
  /\ poller' = stop(poller)
  /\ fetches' = fetches + 1
  /\ UNCHANGED <<now, ticks>>
  /\ PollerOnly

\* the host runs the callback of an interval timer that is due
IntervalFires(i) ==
  /\ i \in poller.intervals
  /\ i.due = now
  /\ Len(poller.calls) < MaxPollCalls
  /\ poller' = Invoke([poller EXCEPT !.intervals =
                         (@ \ {i}) \cup {[i EXCEPT !.due = @ + i.delay]}],
                      now, i.id)
  /\ UNCHANGED <<now, ticks, fetches>>
  /\ PollerOnly

\* time passes, never past a timer that is due
PollTick(d) ==
  /\ ticks < MaxPollTicks
  /\ \A i \in poller.intervals : i.due >= now + d
  /\ now' = now + d
  /\ ticks' = ticks + 1
  /\ UNCHANGED <<fetches, poller>>
  /\ PollerOnly

InitPolling ==
  /\ now = T0
  /\ quotas = EmptyMap
  /\ cache = EmptyMap
  /\ expirations = EmptyMap
  /\ apiProfiles = EmptyMap
  /\ localStorage = StorageOf(EmptyMemory, T0)
  /\ awaiting = ZeroCounts
  /\ reading = ZeroReading
  /\ last = NoStep
  /\ ticks = 0
  /\ fetches = 0
  /\ \E e \in PollEvery : poller = [NoPoller EXCEPT !.everyMs = e]
  /\ widgets = NoWidgets

NextPolling ==
  \/ PollStart
  \/ PollStop
  \/ \E i \in poller.intervals : IntervalFires(i)
  \/ \E d \in PollTickSet : PollTick(d)

SpecPolling == InitPolling /\ [][NextPolling]_vars

\* C39: for the controller startPolling returns, at most one interval timer is
\* active after any calls of start() and stop(); start() invokes fn at once and
\* its timer then invokes fn every max(1000, everyMs) ms; after stop() no timer
\* invokes fn until the next start().
OneTimer ==
  /\ Cardinality(poller.intervals) <= 1
  /\ poller.timer = 0 => poller.intervals = {}
  /\ \A i \in poller.intervals :
       /\ i.id = poller.timer
       /\ i.delay = Max(1000, poller.everyMs)
       /\ i.due >= now
       /\ i.due = poller.calls[Len(poller.calls)].time + i.delay
EveryDelay ==
  \A k \in 2..Len(poller.calls) :
    poller.calls[k].timer # 0 =>
      poller.calls[k].time = poller.calls[k - 1].time + Max(1000, poller.everyMs)
StartCallsAtOnce ==
  (poller'.timer # poller.timer /\ poller'.timer # 0) =>
    poller'.calls = Append(poller.calls, [time |-> now, timer |-> 0])
SilentAfterStop ==
  (poller.timer = 0 /\ poller'.calls # poller.calls) =>
    /\ poller'.timer # 0
    /\ poller'.calls = Append(poller.calls, [time |-> now, timer |-> 0])
C39_PollingController ==
  /\ []OneTimer
  /\ []EveryDelay
  /\ [][StartCallsAtOnce /\ SilentAfterStop]_vars
\* started with everyMs 500, fired twice a second apart, restarted, stopped
C39_Witness ==
  /\ poller.everyMs = 500
  /\ Len(poller.calls) = 4
  /\ poller.calls[2].timer = 1
  /\ poller.calls[3].timer = 1
  /\ poller.calls[3].time = poller.calls[1].time + 2000
  /\ poller.calls[4].timer = 0
  /\ poller.timer = 0
  /\ poller.intervals = {}


\* ==================================================== the dashboard
\* Every WidgetCard polls its apiUrl through fetchJson while it is mounted;
\* removing the widget unmounts the card, whose effect cleanup stops its poller.
Widget(id, apiUrl) == [id |-> id, apiUrl |-> apiUrl]
Dashboards ==
  { <<Widget("w1", U1)>>,
    <<Widget("w2", U1), Widget("w1", U1)>>,
    <<Widget("w2", U2), Widget("w1", U1)>> }
DashboardUrls == {U1, U2}
DashboardTickSet == {60000}
DashboardBodies == {JsObjA, JsWrapA, JsNull}

WidgetsUsing(ws, u) == SelectSeq(ws, LAMBDA w : w.apiUrl = u)
InFlight(u) == awaiting[u] > 0 \/ reading[u].json > 0 \/ reading[u].text > 0

\* fn of a mounted widget's poller: fetchData awaits fetchJson(widget.apiUrl)
WidgetPolls(k) ==
  /\ k \in 1..Len(widgets)
  /\ FetchStart(widgets[k].apiUrl)
  /\ Idle

\* removeWidget(id), and the unmounted card's effect cleanup
RemoveWidget(id) ==
  /\ \E k \in 1..Len(widgets) : widgets[k].id = id
  /\ LET widgetToRemove == SelectSeq(widgets, LAMBDA w : w.id = id)[1]
         otherWidgetsUsingApi ==
           SelectSeq(widgets, LAMBDA w : w.apiUrl = widgetToRemove.apiUrl /\ w.id # id)
         st == IF Len(otherWidgetsUsingApi) = 0
               THEN invalidate(Memory, widgetToRemove.apiUrl)
               ELSE Memory
     IN /\ cache' = st.cache
        /\ expirations' = st.expirations
        /\ localStorage' =
             IF Len(otherWidgetsUsingApi) = 0
             THEN [localStorage EXCEPT
                     !.cache = SavedCache(st.cache, st.expirations, now),
                     !.profiles = SavedProfiles(st.apiProfiles)]
             ELSE localStorage
        /\ last' = Step("removeWidget", widgetToRemove.apiUrl, Allowed, FALSE, TRUE, NoResult)
  /\ widgets' = SelectSeq(widgets, LAMBDA w : w.id # id)
  /\ UNCHANGED <<now, quotas, apiProfiles, awaiting, reading, ticks, fetches, poller>>

InitDashboard ==
  /\ now = T0
  /\ quotas = EmptyMap
  /\ cache = EmptyMap
  /\ expirations = EmptyMap
  /\ apiProfiles = EmptyMap
  /\ localStorage = StorageOf(EmptyMemory, T0)
  /\ awaiting = ZeroCounts
  /\ reading = ZeroReading
  /\ last = NoStep
  /\ ticks = 0
  /\ fetches = 0
  /\ poller = NoPoller
  /\ widgets \in Dashboards

NextDashboard ==
  \/ \E d \in DashboardTickSet : Tick(d) /\ Idle
  \/ \E k \in 1..Len(widgets) : WidgetPolls(k)
  \/ \E id \in {"w1", "w2"} : RemoveWidget(id)
  \/ \E u \in DashboardUrls : FetchThrows(u) /\ Idle
  \/ \E u \in DashboardUrls, r \in Responses : ResponseRateLimited(u, r) /\ Idle
  \/ \E u \in DashboardUrls, r \in Responses : ResponseHttpError(u, r) /\ Idle
  \/ \E u \in DashboardUrls, r \in Responses : ResponseHtml(u, r) /\ Idle
  \/ \E u \in DashboardUrls, r \in Responses : ResponseBodyPending(u, r) /\ Idle
  \/ \E u \in DashboardUrls, b \in DashboardBodies : BodyJson(u, b) /\ Idle
  \/ \E u \in DashboardUrls : BodyJsonInvalid(u) /\ Idle
  \/ \E u \in DashboardUrls, b \in TextBodies : BodyText(u, b) /\ Idle
  \/ \E u \in DashboardUrls : BodyTextThrows(u) /\ Idle

SpecDashboard == InitDashboard /\ [][NextDashboard]_vars

\* C40: once removeWidget has removed the last widget that uses an apiUrl (its
\* poller stopped with it), the cache holds no entry for that url, even when a
\* fetchJson poll for it was in flight at the removal; when another widget
\* still uses the url, removeWidget leaves the cache entry as it was.
\* (Widgets are only removed here and the cache starts empty, so a url that no
\* widget uses any more is one whose last widget was removed.)
LastWidgetGone(u) ==
  /\ Len(WidgetsUsing(widgets, u)) = 0
  /\ \E board \in Dashboards : Len(WidgetsUsing(board, u)) > 0
RemovedUrlNotCached ==
  \A u \in DashboardUrls : LastWidgetGone(u) => u \notin DOMAIN cache
SharedUrlKept ==
  (widgets' # widgets /\ Len(WidgetsUsing(widgets', last'.url)) > 0) =>
    /\ cache' = cache
    /\ expirations' = expirations
C40_RemovedWidgetLeavesNoEntry ==
  /\ []RemovedUrlNotCached
  /\ [][SharedUrlKept]_vars

=============================================================================
